---- MODULE Spec2Model ----
(***************************************************************************)
(* Standardizer-Service: the dispatch cycle of StandardizationService      *)
(* (src/src/services/standardizer.py) driving AIStandardizer               *)
(* (src/src/services/ai_standardizer.py) against the classified store      *)
(* (src/src/storage/classified_mongo.py), the standardized store           *)
(* (src/src/storage/standardized_mongo.py), the source fetcher             *)
(* (src/src/services/product_fetcher.py) and the cleanup endpoints         *)
(* (src/src/api/endpoints/standardization.py).                             *)
(*                                                                         *)
(* Strings the code inspects character by character (taxonomy codes, group *)
(* keys) are sequences of ASCII codes, so that slicing, prefix tests and   *)
(* sorted() are computed as Python computes them.  A raw text of the oracle *)
(* is the sequence of its tokens, so that find, rfind, the slice and       *)
(* json.loads are computed too; the standardized store is the bag of its   *)
(* documents.  The pydantic models are                                     *)
(* the records their call sites build; the field validation the library    *)
(* runs when a model object is constructed is not modelled, except that    *)
(* the conversion of one oracle attribute may fail (the try/except of      *)
(* _parse_response).                                                       *)
(***************************************************************************)
EXTENDS Naturals, Integers, Sequences, FiniteSets, Bags, TLC

(***************************************************************************)
(* Bounds of the model.                                                    *)
(***************************************************************************)
\* number of documents in the classified collection
NumRecords == 3
\* StandardizationService.batch_size (default 50), bounded
BatchSize == 2
\* dispatch cycles one dispatcher runs
MaxCycles == 2

Records == 1 .. NumRecords
Dispatchers == {"d1", "d2"}

(***************************************************************************)
(* Characters and strings.                                                 *)
(***************************************************************************)
\* ASCII code of '.', the separator _get_okpd_group strips
Dot == 46
\* ASCII code of the digit n
Digit(n) == 48 + n

\* Python's strings as the sequences of their code points: the taxonomy
\* codes the documents carry, the group keys of the catalog
\* (okpd2_standards.keys()) and the attribute names
Str ==
    "" :> <<  >>
    @@ "17.12" :> << 49, 55, 46, 49, 50 >>
    @@ "1712" :> << 49, 55, 49, 50 >>
    @@ "2.6" :> << 50, 46, 54 >>
    @@ "26" :> << 50, 54 >>
    @@ "26.1" :> << 50, 54, 46, 49 >>
    @@ "26.20" :> << 50, 54, 46, 50, 48 >>
    @@ "26.20.1" :> << 50, 54, 46, 50, 48, 46, 49 >>
    @@ "26.30" :> << 50, 54, 46, 51, 48 >>
    @@ "261.0" :> << 50, 54, 49, 46, 48 >>
    @@ "262" :> << 50, 54, 50 >>
    @@ "2620" :> << 50, 54, 50, 48 >>
    @@ "262011" :> << 50, 54, 50, 48, 49, 49 >>
    @@ "2630" :> << 50, 54, 51, 48 >>
    @@ "9999" :> << 57, 57, 57, 57 >>
    @@ "ABC" :> << 65, 66, 67 >>
    @@ "Ab" :> << 65, 98 >>
    @@ "ab" :> << 97, 98 >>
    @@ "b" :> << 98 >>
    @@ "cd" :> << 99, 100 >>

\* the literal "UNMAPPED": U N M A P P E D
UNMAPPED == << 85, 78, 77, 65, 80, 80, 69, 68 >>

\* str.replace(".", "")
RECURSIVE StripDots(_)
StripDots(s) ==
    IF s = << >> THEN << >>
    ELSE IF Head(s) = Dot THEN StripDots(Tail(s))
    ELSE << Head(s) >> \o StripDots(Tail(s))

\* str.startswith
StartsWith(s, p) ==
    /\ Len(p) <= Len(s)
    /\ SubSeq(s, 1, Len(p)) = p

\* Python's order on strings: lexicographic by code point
RECURSIVE StrLess(_, _)
StrLess(a, b) ==
    IF b = << >> THEN FALSE
    ELSE IF a = << >> THEN TRUE
    ELSE IF Head(a) < Head(b) THEN TRUE
    ELSE IF Head(a) > Head(b) THEN FALSE
    ELSE StrLess(Tail(a), Tail(b))

(***************************************************************************)
(* The catalog: AIStandardizer.okpd2_standards, loaded once in __init__.   *)
(***************************************************************************)
\* the characteristic rule sets of the catalog file, one per group key
CatalogFile == (Str["26.20"] :> "rules-26.20") @@ (Str["26.30"] :> "rules-26.30")
                  @@ (Str["17.12"] :> "rules-17.12")

\* the empty mapping _load_standards returns when loading fails
EmptyMap == [k \in {} |-> "none"]

\* a value no field holds: a missing field, Python's None
None == "None"

\* the product_id of an oracle element that carries none (falsy)
NoId == 0

(***************************************************************************)
(* Time, as time.time() returns it: seconds since the epoch.               *)
(***************************************************************************)
\* the default of RATE_LIMIT_DELAY, in seconds
RATE_LIMIT_DELAY == 5

\* AIStandardizer.cache_refresh_interval
cache_refresh_interval == 240
\* the first reading of the clock, and the granularity and number of the
\* later readings
StartTime == 1000
TickSeconds == 240
\* the runner polls the pending count at most MaxPolls times
MaxPolls == 4
MaxTicks == 2

Times == { StartTime + k * TickSeconds : k \in 0 .. MaxTicks }

(***************************************************************************)
(* Attribute names and the products' attributes.                           *)
(***************************************************************************)
\* the attributes of record r: in its source document, or, for a tender
\* record, in the classified document itself
AttributesOf(r) ==
    IF r = 1
    THEN << [attr_name |-> Str["Ab"], attr_value |-> "v1"],
            [attr_name |-> Str["cd"], attr_value |-> "v2"] >>
    ELSE IF r = 2 THEN << >>
    ELSE << [attr_name |-> Str["cd"], attr_value |-> "v2"] >>

(***************************************************************************)
(* State.                                                                  *)
(***************************************************************************)
VARIABLES
    \* ClassifiedMongoStore.collection: one document per record id, with
    \* okpd2_code, source_collection, standardization_status ("absent" when
    \* the field does not exist) and standardization_error
    classified_db,
    \* the documents whose standardization_started_at is more than 30
    \* minutes old
    stuck,
    \* StandardizedMongoStore.collection: the stored document per key
    \* (old_mongo_id, collection_name)
    standardized_db,
    \* time.time() as last read
    now,
    \* AIStandardizer.okpd2_standards, group_caches, last_cache_refresh
    okpd2_standards,
    group_caches,
    last_cache_refresh,
    \* where the dispatcher is in process_batch
    pc,
    \* process_batch calls started by the dispatcher
    cycles,
    \* get_products_for_standardization's local list `products`
    products,
    \* process_batch's locals: classified_products, whether it is bound
    \* ('classified_products' in locals()), and products_for_ai (product_map
    \* has the same ids in the same order)
    classified_products,
    in_locals,
    products_for_ai,
    \* standardize_batch's locals: what is left of products_by_group.items(),
    \* all_results, and current_time of _refresh_cache_if_needed (0 outside
    \* the call)
    groups_left,
    all_results,
    current_time,
    \* process_batch's standardized_products and status_updates
    standardized_products,
    status_updates,
    \* the exception in flight (None when there is none) and the dict
    \* process_batch returned
    exc,
    result,
    \* the oracle requests of the dispatcher's current cycle, in order
    oracle_log,
    \* the continuous runner of the dispatcher: log is what it has done so
    \* far (polls, calls of process_batch, sleeps) in order, okpd_prefix
    \* the argument of its call of process_batch (<< >> for None and for
    \* "", which the query treats alike), codes the codes its grouped loop
    \* has still to go through
    runner

vars == << classified_db, stuck, standardized_db, now, okpd2_standards,
           group_caches, last_cache_refresh, pc, cycles, products,
           classified_products, in_locals, products_for_ai, groups_left,
           all_results, current_time, standardized_products, status_updates,
           exc, result, oracle_log, runner >>

storeVars == << classified_db, stuck, standardized_db >>
cacheVars == << okpd2_standards, group_caches, last_cache_refresh >>
batchVars == << products_for_ai, groups_left, all_results, current_time,
                standardized_products, status_updates, oracle_log >>

\* the texts of the exceptions the stores raise
UpstreamError == "classified store error"
DownstreamError == "standardized store error"
OracleError == "oracle error"

(***************************************************************************)
(* ClassifiedMongoStore.get_products_for_standardization                   *)
(***************************************************************************)
\* the filter of find_one_and_update: "status_stg2" and the "$or" on
\* standardization_status ("okpd2_code" exists in every document)
ClaimFilterNoProcessing(doc) ==
    /\ doc.status_stg2 = "classified"
    /\ doc.standardization_status \notin {"standardized", "failed"}

ClaimFilter(doc) ==
    /\ doc.status_stg2 = "classified"
    /\ doc.standardization_status \in {"absent", "pending"}

\* {"$regex": "^" + okpd_prefix}: a '.' of the prefix matches any character
Regex(okpd_prefix, okpd2_code) ==
    /\ Len(okpd_prefix) <= Len(okpd2_code)
    /\ \A i \in 1 .. Len(okpd_prefix) :
           okpd_prefix[i] = Dot \/ okpd_prefix[i] = okpd2_code[i]

\* the documents the query of the dispatcher's call matches: with an
\* okpd_prefix, the regular expression replaces the test of okpd2_code
Claimable(d) ==
    { r \in Records :
          /\ ClaimFilter(classified_db[r])
          /\ runner[d].okpd_prefix = << >>
                 \/ Regex(runner[d].okpd_prefix, classified_db[r].okpd2_code) }

\* the document find_one_and_update matches: no sort is given, so the
\* first matching document in the collection's natural order
FirstClaimable(d) ==
    CHOOSE r \in Claimable(d) : \A r2 \in Claimable(d) : r <= r2

\* a dispatcher enters process_batch, from one of the positions of from
\* and for the max-th time at most
StartCycleAt(d, from, max) ==
    /\ pc[d] \in from
    /\ cycles[d] < max
    /\ pc' = [pc EXCEPT ![d] = "claim"]
    /\ cycles' = [cycles EXCEPT ![d] = @ + 1]
    /\ products' = [products EXCEPT ![d] = << >>]
    /\ classified_products' = [classified_products EXCEPT ![d] = << >>]
    /\ in_locals' = [in_locals EXCEPT ![d] = FALSE]
    /\ products_for_ai' = [products_for_ai EXCEPT ![d] = << >>]
    /\ groups_left' = [groups_left EXCEPT ![d] = << >>]
    /\ all_results' = [all_results EXCEPT ![d] = << >>]
    /\ standardized_products' = [standardized_products EXCEPT ![d] = << >>]
    /\ status_updates' = [status_updates EXCEPT ![d] = << >>]
    /\ exc' = [exc EXCEPT ![d] = None]
    /\ result' = [result EXCEPT ![d] =
                     [total |-> 0, standardized |-> 0, failed |-> 0]]
    /\ oracle_log' = [oracle_log EXCEPT ![d] = << >>]
    /\ UNCHANGED << storeVars, cacheVars, now, current_time >>

\* process_batch is called by the endpoint, or by a runner that is not
\* looked at
StartCycle(d) ==
    /\ StartCycleAt(d, {"idle", "done", "raised"}, MaxCycles)
    /\ UNCHANGED runner

\* one find_one_and_update that matches a document: the document goes to
\* "processing", its started_at is set to now, and it is appended
ClaimOne(d) ==
    /\ pc[d] = "claim"
    /\ Len(products[d]) < BatchSize
    /\ Claimable(d) # {}
    /\ LET r == FirstClaimable(d)
       IN  /\ classified_db' = [classified_db EXCEPT
                                ![r].standardization_status = "processing"]
           /\ stuck' = stuck \ {r}
           /\ products' = [products EXCEPT ![d] = Append(@, r)]
    /\ UNCHANGED << standardized_db, now, cacheVars, pc, cycles, runner,
                     classified_products, in_locals, batchVars, exc, result >>

\* the loop ends (range(limit) is exhausted, or find_one_and_update matched
\* nothing) and the list is returned to process_batch, which returns at
\* once when the list is empty
ClaimReturn(d) ==
    /\ pc[d] = "claim"
    /\ \/ Len(products[d]) = BatchSize
       \/ Claimable(d) = {}
    /\ classified_products' = [classified_products EXCEPT ![d] = products[d]]
    /\ in_locals' = [in_locals EXCEPT ![d] = TRUE]
    /\ IF products[d] = << >>
       THEN /\ pc' = [pc EXCEPT ![d] = "done"]
            /\ result' = [result EXCEPT ![d] =
                   [total |-> 0, standardized |-> 0, failed |-> 0]]
       ELSE /\ pc' = [pc EXCEPT ![d] = "prepare"]
            /\ UNCHANGED result
    /\ UNCHANGED << storeVars, now, cacheVars, cycles, runner, products, batchVars,
                     exc >>

\* find_one_and_update raises: the exception leaves the claim call before
\* classified_products is bound, and reaches process_batch's handler
ClaimRaise(d) ==
    /\ pc[d] = "claim"
    /\ Len(products[d]) < BatchSize
    /\ exc' = [exc EXCEPT ![d] = UpstreamError]
    /\ pc' = [pc EXCEPT ![d] = "handler"]
    /\ UNCHANGED << storeVars, now, cacheVars, cycles, runner, products,
                     classified_products, in_locals, batchVars, result >>

(***************************************************************************)
(* AIStandardizer._get_okpd_group and _prepare_cached_content              *)
(***************************************************************************)
\* the first key of sorted(keys) that starts with prefix, with or without
\* a dot after it
FirstSortedKeyNoDot(keys, prefix) ==
    LET matching == {k \in keys : StartsWith(k, prefix)}
    IN  IF matching = {} THEN << >>
        ELSE CHOOSE k \in matching :
                 \A k2 \in matching \ {k} : StrLess(k, k2)

\* the first key of sorted(keys) that starts with prefix + ".", "" if none
FirstSortedKey(keys, prefix) ==
    LET matching == {k \in keys : StartsWith(k, prefix \o << Dot >>)}
    IN  IF matching = {} THEN << >>
        ELSE CHOOSE k \in matching :
                 \A k2 \in matching \ {k} : StrLess(k, k2)

\* the resolver with len(clean_code) > 4 in the place of >= 4
GetOkpdGroupOver4(okpd2_code, standards) ==
    IF okpd2_code = << >> THEN << >>
    ELSE LET clean_code == StripDots(okpd2_code)
         IN  IF Len(clean_code) > 4
             THEN SubSeq(clean_code, 1, 2) \o << Dot >>
                      \o SubSeq(clean_code, 3, 4)
             ELSE IF Len(clean_code) = 2
             THEN FirstSortedKey(DOMAIN standards, clean_code)
             ELSE << >>

GetOkpdGroup(okpd2_code, standards) ==
    IF okpd2_code = << >> THEN << >>
    ELSE LET clean_code == StripDots(okpd2_code)
         IN  IF Len(clean_code) >= 4
             THEN SubSeq(clean_code, 1, 2) \o << Dot >>
                      \o SubSeq(clean_code, 3, 4)
             ELSE IF Len(clean_code) = 2
             THEN FirstSortedKey(DOMAIN standards, clean_code)
             ELSE << >>

\* the text rendered for any group key, with an empty rule set for a key
\* the catalog does not have
PrepareCachedContentAnyGroup(okpd_group, standards) ==
    << okpd_group,
       IF okpd_group \in DOMAIN standards THEN standards[okpd_group]
       ELSE "no rules" >>

\* the text rendered from a built-in rule set when the catalog is empty
PrepareCachedContentDefault(okpd_group, standards) ==
    IF DOMAIN standards = {} THEN << okpd_group, "default rules" >>
    ELSE IF okpd_group \notin DOMAIN standards THEN << >>
    ELSE << okpd_group, standards[okpd_group] >>

\* the rendered instruction text: the fixed prompt with the group key and
\* json.dumps(standards[group]) embedded; << >> stands for None
PrepareCachedContent(okpd_group, standards) ==
    IF okpd_group \notin DOMAIN standards THEN << >>
    ELSE << okpd_group, standards[okpd_group] >>

(***************************************************************************)
(* The oracle's raw responses and AIStandardizer._parse_response           *)
(***************************************************************************)
\* the attribute list an oracle element carries
OneAttr == << [standard_name |-> Str["ab"], standard_value |-> "s1",
               characteristic_type |-> "t1", convertible |-> TRUE] >>

\* a raw text is the sequence of its tokens: a '[', a ']', a ',', a piece of
\* prose that is not JSON, a JSON number, or a whole JSON object with its
\* "product_id" (NoId: missing or empty) and its "standardized_attributes"
\* (missing, a list, or null)
Token(kind) ==
    [kind |-> kind, product_id |-> NoId, standardized_attributes |-> << >>,
     null_attributes |-> FALSE]

Object(product_id, attrs) ==
    [Token("object") EXCEPT !.product_id = product_id,
                            !.standardized_attributes = attrs]

ObjectNullAttributes(product_id) ==
    [Token("object") EXCEPT !.product_id = product_id,
                            !.null_attributes = TRUE]

\* a nested array, as an element of parsed_data

\* str.find and str.rfind, counting from 0, -1 when the token is absent
Find(response, token) ==
    IF \E i \in 1 .. Len(response) : response[i] = token
    THEN (CHOOSE i \in 1 .. Len(response) :
              /\ response[i] = token
              /\ \A j \in 1 .. i - 1 : response[j] # token) - 1
    ELSE -1

RFind(response, token) ==
    IF \E i \in 1 .. Len(response) : response[i] = token
    THEN (CHOOSE i \in 1 .. Len(response) :
              /\ response[i] = token
              /\ \A j \in i + 1 .. Len(response) : response[j] # token) - 1
    ELSE -1

\* response[json_start:json_end]
Slice(response, json_start, json_end) ==
    SubSeq(response, json_start + 1, json_end)

\* json.loads of an array, by recursive descent: the value read at the
\* head of the tokens and the tokens after it, or a JSONDecodeError
JSONDecodeError == [ok |-> FALSE, value |-> << >>, rest |-> << >>]

RECURSIVE LoadsValue(_)
RECURSIVE LoadsItems(_, _)
LoadsValue(tokens) ==
    IF tokens = << >> THEN JSONDecodeError
    ELSE IF Head(tokens).kind \in {"object", "number"}
    THEN [ok |-> TRUE, value |-> << Head(tokens) >>, rest |-> Tail(tokens)]
    ELSE IF Head(tokens) = Token("[")
    THEN IF Len(tokens) >= 2 /\ tokens[2] = Token("]")
         THEN [ok |-> TRUE, value |-> << >>,
               rest |-> SubSeq(tokens, 3, Len(tokens))]
         ELSE LoadsItems(Tail(tokens), << >>)
    ELSE JSONDecodeError

\* the items of an array whose '[' has been read
LoadsItems(tokens, items) ==
    LET item == LoadsValue(tokens)
        element == IF tokens # << >> /\ Head(tokens) = Token("[")
                   THEN Token("array") ELSE item.value[1]
    IN  IF ~item.ok \/ item.rest = << >> THEN JSONDecodeError
        ELSE IF Head(item.rest) = Token("]")
        THEN [ok |-> TRUE, value |-> Append(items, element),
              rest |-> Tail(item.rest)]
        ELSE IF Head(item.rest) = Token(",")
        THEN LoadsItems(Tail(item.rest), Append(items, element))
        ELSE JSONDecodeError

\* json.loads(json_str): the whole string is one value
JsonLoads(json_str) ==
    LET loaded == LoadsValue(json_str)
    IN  IF loaded.ok /\ loaded.rest = << >> THEN loaded ELSE JSONDecodeError

\* the array with one element per id of ids, in increasing order
RECURSIVE ElementsFor(_, _)
ElementsFor(ids, attrs) ==
    IF ids = {} THEN << >>
    ELSE LET m == CHOOSE x \in ids : \A y \in ids : x <= y
         IN  << Object(m, attrs) >> \o ElementsFor(ids \ {m}, attrs)

\* the text of an array: its elements between brackets, with commas
RECURSIVE Joined(_)
Joined(elements) ==
    IF Len(elements) <= 1 THEN elements
    ELSE << Head(elements), Token(",") >> \o Joined(Tail(elements))

ArrayText(elements) ==
    << Token("[") >> \o Joined(elements) \o << Token("]") >>

\* the raw texts the oracle answers a request with: one without an array,
\* one whose array is not well-formed, and the well-formed arrays that
\* name some of the ids of named
OracleResponses(named) ==
    { << Token("prose") >>, << Token("["), Token("prose"), Token("]") >> }
    \cup { ArrayText(ElementsFor(ids, OneAttr)) : ids \in SUBSET named }

\* StandardizedAttribute(...) for the attributes whose conversion succeeds
RECURSIVE ConvertAttrs(_)
ConvertAttrs(attrs) ==
    IF attrs = << >> THEN << >>
    ELSE LET attr == Head(attrs)
         IN  (IF attr.convertible
              THEN << [standard_name |-> attr.standard_name,
                       standard_value |-> attr.standard_value,
                       characteristic_type |-> attr.characteristic_type] >>
              ELSE << >>) \o ConvertAttrs(Tail(attrs))

\* m[k] = v, as a dict assignment
Put(m, k, v) == [x \in DOMAIN m \cup {k} |-> IF x = k THEN v ELSE m[x]]

\* dict.update
Update(m, n) ==
    [x \in DOMAIN m \cup DOMAIN n |-> IF x \in DOMAIN n THEN n[x] ELSE m[x]]

\* the loop over parsed_data; an element that is not an object (its .get
\* raises AttributeError) or whose "standardized_attributes" is null (the
\* inner for raises TypeError) ends the loop in the handler of Exception,
\* which returns the results so far
RECURSIVE ParseElements(_, _)
ParseElements(parsed_data, results) ==
    IF parsed_data = << >> THEN results
    ELSE LET product_data == Head(parsed_data)
         IN  IF product_data.kind # "object" THEN results
             ELSE IF product_data.product_id = NoId
             THEN ParseElements(Tail(parsed_data), results)
             ELSE IF product_data.null_attributes THEN results
             ELSE ParseElements(Tail(parsed_data),
                      Put(results, product_data.product_id,
                          ConvertAttrs(product_data.standardized_attributes)))

\* what a call of _parse_response ends with: whether an exception left it,
\* and the map it returned
Returned(results) == [raised |-> FALSE, results |-> results]

Raised == [raised |-> TRUE, results |-> << >>]

\* response.find('[') # -1 and response.rfind(']') + 1 # 0
HasArray(response) ==
    /\ Find(response, Token("[")) # -1
    /\ RFind(response, Token("]")) + 1 # 0

\* _parse_response without its handler of JSONDecodeError
ParseResponseNoHandler(response) ==
    LET json_start == Find(response, Token("["))
        json_end == RFind(response, Token("]")) + 1
        parsed_data == JsonLoads(Slice(response, json_start, json_end))
    IN  IF json_start = -1 \/ json_end = 0 THEN Returned(<< >>)
        ELSE IF ~parsed_data.ok THEN Raised
        ELSE Returned(ParseElements(parsed_data.value, << >>))

ParseResponse(response) ==
    LET json_start == Find(response, Token("["))
        json_end == RFind(response, Token("]")) + 1
        parsed_data == JsonLoads(Slice(response, json_start, json_end))
    IN  IF json_start = -1 \/ json_end = 0 THEN Returned(<< >>)
        ELSE IF ~parsed_data.ok THEN Returned(<< >>)
        ELSE Returned(ParseElements(parsed_data.value, << >>))

(***************************************************************************)
(* StandardizationService.process_batch, step 2: products_for_ai           *)
(***************************************************************************)
ProductForStandardization(r) ==
    [product_id |-> r,
     okpd2_code |-> classified_db[r].okpd2_code,
     attributes |-> AttributesOf(r)]

\* the products built from the claimed documents, in order: a tender
\* document is used as it is, any other needs its source document, and is
\* skipped when fetch_product_details returned None for it
RECURSIVE BuildProducts(_, _)
BuildProducts(claimed, not_found) ==
    IF claimed = << >> THEN << >>
    ELSE LET r == Head(claimed)
         IN  (IF classified_db[r].source_collection # "tender"
                    /\ r \in not_found
              THEN << >>
              ELSE << ProductForStandardization(r) >>)
                 \o BuildProducts(Tail(claimed), not_found)

SeqRange(q) == { q[i] : i \in 1 .. Len(q) }

ProductIds(prods) == { prods[i].product_id : i \in 1 .. Len(prods) }

(***************************************************************************)
(* AIStandardizer.standardize_batch: products_by_group                     *)
(***************************************************************************)
\* products_by_group[group].append(product), the dict keeping the order in
\* which its keys were first inserted
AddToGroup(by_group, group, product) ==
    IF \E i \in 1 .. Len(by_group) : by_group[i].group = group
    THEN [i \in 1 .. Len(by_group) |->
             IF by_group[i].group = group
             THEN [by_group[i] EXCEPT !.products = Append(@, product)]
             ELSE by_group[i]]
    ELSE Append(by_group, [group |-> group, products |-> << product >>])

RECURSIVE GroupProducts(_, _, _)
GroupProducts(prods, by_group, standards) ==
    IF prods = << >> THEN by_group
    ELSE LET group == GetOkpdGroup(Head(prods).okpd2_code, standards)
         IN  GroupProducts(Tail(prods),
                 AddToGroup(by_group,
                            IF group = << >> THEN UNMAPPED ELSE group,
                            Head(prods)),
                 standards)

\* all_results[product.product_id] = [] for every product of the group
RECURSIVE EmptyResults(_, _)
EmptyResults(group_products, results) ==
    IF group_products = << >> THEN results
    ELSE EmptyResults(Tail(group_products),
                      Put(results, Head(group_products).product_id, << >>))

\* the loop that adds [] for every product of the group the oracle left out
RECURSIVE FillMissing(_, _)
FillMissing(group_products, results) ==
    IF group_products = << >> THEN results
    ELSE FillMissing(Tail(group_products),
             IF Head(group_products).product_id \in DOMAIN results
             THEN results
             ELSE Put(results, Head(group_products).product_id, << >>))

\* products_data of the first product of the group only
DynamicContentFirstOnly(group_products) ==
    << [product_id |-> group_products[1].product_id,
        okpd2_code |-> group_products[1].okpd2_code,
        attributes |-> group_products[1].attributes] >>

\* products_data: every product of the group with its attribute list
DynamicContent(group_products) ==
    [i \in 1 .. Len(group_products) |->
        [product_id |-> group_products[i].product_id,
         okpd2_code |-> group_products[i].okpd2_code,
         attributes |-> group_products[i].attributes]]

\* settings.enable_prompt_caching, at its default
enable_prompt_caching == TRUE

\* the calls of client.messages.create one _send_request makes, whether
\* the call returns or raises; the variant makes a second call when the
\* first raises
TransportCallsWithRetry(outcome) == IF outcome = "failed" THEN 2 ELSE 1

TransportCalls(outcome) == 1

\* a request whose text is not parsed: a warm-up, or a request that raised
NotParsed == Returned(<< >>)

\* one entry of the log of oracle requests, one per _send_request: the two
\* segments of the message (the cached one only with prompt caching
\* enabled and a non-empty text), the calls of client.messages.create,
\* whether _send_request returned or raised, whether the text it returned
\* has a '[' and a ']', and, where the log keeps them, the text and what
\* _parse_response ended with
Request(kind, group, cached_content, dynamic_content, outcome, has_array) ==
    [kind |-> kind, group |-> group,
     cached_content |->
         IF enable_prompt_caching /\ cached_content # << >>
         THEN cached_content ELSE << >>,
     dynamic_content |-> dynamic_content,
     transport_calls |-> TransportCalls(outcome),
     outcome |-> outcome,
     has_array |-> has_array,
     response |-> << >>,
     parsed |-> NotParsed]

\* the entry with the text and the end of _parse_response
Traced(entry, response, parsed) ==
    [entry EXCEPT !.response = response, !.parsed = parsed]

(***************************************************************************)
(* process_batch, step 2, and the entry into standardize_batch             *)
(***************************************************************************)
\* the claimed documents that need a source document
NeedSource(d) ==
    { r \in SeqRange(classified_products[d]) :
          classified_db[r].source_collection # "tender" }

\* the fetches return (None for the documents of not_found: the source
\* document is missing, or the fetch failed and fetch_product_details
\* returned None); with no product left process_batch returns, otherwise
\* standardize_batch groups the products
Prepare(d) ==
    /\ pc[d] = "prepare"
    /\ \E not_found \in SUBSET NeedSource(d) :
        LET prods == BuildProducts(classified_products[d], not_found)
        IN  IF prods = << >>
            THEN /\ pc' = [pc EXCEPT ![d] = "done"]
                 /\ result' = [result EXCEPT ![d] =
                        [total |-> Len(classified_products[d]),
                         standardized |-> 0,
                         failed |-> Len(classified_products[d])]]
                 /\ UNCHANGED << products_for_ai, groups_left >>
            ELSE /\ pc' = [pc EXCEPT ![d] = "group"]
                 /\ products_for_ai' = [products_for_ai EXCEPT ![d] = prods]
                 /\ groups_left' = [groups_left EXCEPT ![d] =
                        GroupProducts(prods, << >>, okpd2_standards[d])]
                 /\ UNCHANGED result
    /\ UNCHANGED << storeVars, now, cacheVars, cycles, runner, products,
                     classified_products, in_locals, all_results,
                     current_time, standardized_products, status_updates,
                     exc, oracle_log >>

(***************************************************************************)
(* standardize_batch: one iteration of the loop over products_by_group,    *)
(* up to its first oracle call                                             *)
(***************************************************************************)
\* last_cache_refresh.get(okpd_group, 0)
LastRefresh(d, okpd_group) ==
    IF okpd_group \in DOMAIN last_cache_refresh[d]
    THEN last_cache_refresh[d][okpd_group]
    ELSE 0

\* the condition with >= in the place of >
RefreshDueInclusive(d, okpd_group, t) ==
    t - LastRefresh(d, okpd_group) >= cache_refresh_interval

\* the condition of _refresh_cache_if_needed
RefreshDue(d, okpd_group, t) ==
    t - LastRefresh(d, okpd_group) > cache_refresh_interval

\* a cache that keeps the entry of one group only, the last one rendered
StoreCacheOneGroup(caches, okpd_group, cached_content) ==
    IF okpd_group \in DOMAIN caches THEN caches
    ELSE Put(EmptyMap, okpd_group, cached_content)

\* group_caches after the iteration's "if okpd_group not in group_caches"
StoreCache(caches, okpd_group, cached_content) ==
    IF okpd_group \in DOMAIN caches THEN caches
    ELSE Put(caches, okpd_group, cached_content)

\* the UNMAPPED group: empty results, no request
PartitionUnmapped(d) ==
    /\ pc[d] = "group"
    /\ groups_left[d] # << >>
    /\ Head(groups_left[d]).group = UNMAPPED
    /\ all_results' = [all_results EXCEPT ![d] =
           EmptyResults(Head(groups_left[d]).products, @)]
    /\ groups_left' = [groups_left EXCEPT ![d] = Tail(@)]
    /\ UNCHANGED << storeVars, now, cacheVars, pc, cycles, runner, products,
                     classified_products, in_locals, products_for_ai,
                     current_time, standardized_products, status_updates,
                     exc, result, oracle_log >>

\* a group with no cache entry for which _prepare_cached_content returns
\* None: empty results, no cache entry, no request
PartitionNoStandards(d) ==
    /\ pc[d] = "group"
    /\ groups_left[d] # << >>
    /\ LET okpd_group == Head(groups_left[d]).group
       IN  /\ okpd_group # UNMAPPED
           /\ okpd_group \notin DOMAIN group_caches[d]
           /\ PrepareCachedContent(okpd_group, okpd2_standards[d]) = << >>
    /\ all_results' = [all_results EXCEPT ![d] =
           EmptyResults(Head(groups_left[d]).products, @)]
    /\ groups_left' = [groups_left EXCEPT ![d] = Tail(@)]
    /\ UNCHANGED << storeVars, now, cacheVars, pc, cycles, runner, products,
                     classified_products, in_locals, products_for_ai,
                     current_time, standardized_products, status_updates,
                     exc, result, oracle_log >>

\* a group with a cache entry, or for which one is rendered and stored:
\* _refresh_cache_if_needed reads the clock (one of times) and either sends
\* the warm-up request or returns, and then the real request is sent
PartitionStartAt(d, times) ==
    /\ pc[d] = "group"
    /\ groups_left[d] # << >>
    /\ LET okpd_group == Head(groups_left[d]).group
           rendered == PrepareCachedContent(okpd_group, okpd2_standards[d])
       IN  /\ okpd_group # UNMAPPED
           /\ okpd_group \in DOMAIN group_caches[d] \/ rendered # << >>
           /\ group_caches' = [group_caches EXCEPT ![d] =
                  StoreCache(@, okpd_group, rendered)]
           /\ \E t \in times :
               /\ t >= now
               /\ now' = t
               /\ current_time' = [current_time EXCEPT ![d] =
                      IF RefreshDue(d, okpd_group, t) THEN t ELSE 0]
               /\ pc' = [pc EXCEPT ![d] =
                      IF RefreshDue(d, okpd_group, t) THEN "refresh"
                      ELSE "send"]
    /\ UNCHANGED << storeVars, okpd2_standards, last_cache_refresh, cycles, runner,
                     products, classified_products, in_locals,
                     products_for_ai, groups_left, all_results,
                     standardized_products, status_updates, exc, result,
                     oracle_log >>

\* the partition's requests are started as a task that is not awaited:
\* the loop goes on to the next partition at once
PartitionStartDetached(d) ==
    /\ pc[d] = "group"
    /\ groups_left[d] # << >>
    /\ LET okpd_group == Head(groups_left[d]).group
           rendered == PrepareCachedContent(okpd_group, okpd2_standards[d])
       IN  /\ okpd_group # UNMAPPED
           /\ okpd_group \in DOMAIN group_caches[d] \/ rendered # << >>
           /\ group_caches' = [group_caches EXCEPT ![d] =
                  StoreCache(@, okpd_group, rendered)]
    /\ all_results' = [all_results EXCEPT ![d] =
           EmptyResults(Head(groups_left[d]).products, @)]
    /\ groups_left' = [groups_left EXCEPT ![d] = Tail(@)]
    /\ UNCHANGED << storeVars, now, okpd2_standards, last_cache_refresh, pc,
                     cycles, runner, products, classified_products, in_locals,
                     products_for_ai, current_time, standardized_products,
                     status_updates, exc, result, oracle_log >>

\* the clock reads any time from the last reading on
PartitionStart(d) == PartitionStartAt(d, Times)

\* the clock reads what it last read
PartitionStartNow(d) == PartitionStartAt(d, {now})

\* last_cache_refresh after the warm-up request returned
\* the time is written for every group that has a timestamp
RefreshedAll(refreshes, okpd_group, t) ==
    [g \in DOMAIN refreshes \cup {okpd_group} |-> t]

Refreshed(refreshes, okpd_group, t) == Put(refreshes, okpd_group, t)

\* the warm-up request returns
WarmUpOk(d) ==
    /\ pc[d] = "refresh"
    /\ LET okpd_group == Head(groups_left[d]).group
       IN  /\ last_cache_refresh' = [last_cache_refresh EXCEPT ![d] =
                  Refreshed(@, okpd_group, current_time[d])]
           /\ oracle_log' = [oracle_log EXCEPT ![d] = Append(@,
                  Request("warmup", okpd_group, group_caches[d][okpd_group],
                          << >>, "returned", FALSE))]
    /\ current_time' = [current_time EXCEPT ![d] = 0]
    /\ pc' = [pc EXCEPT ![d] = "send"]
    /\ UNCHANGED << storeVars, now, okpd2_standards, group_caches, cycles, runner,
                     products, classified_products, in_locals,
                     products_for_ai, groups_left, all_results,
                     standardized_products, status_updates, exc, result >>

\* the warm-up request fails and its exception leaves standardize_batch
WarmUpFailPropagates(d) ==
    /\ pc[d] = "refresh"
    /\ LET okpd_group == Head(groups_left[d]).group
       IN  oracle_log' = [oracle_log EXCEPT ![d] = Append(@,
               Request("warmup", okpd_group, group_caches[d][okpd_group],
                       << >>, "failed", FALSE))]
    /\ current_time' = [current_time EXCEPT ![d] = 0]
    /\ exc' = [exc EXCEPT ![d] = OracleError]
    /\ pc' = [pc EXCEPT ![d] = "handler"]
    /\ UNCHANGED << storeVars, now, cacheVars, cycles, runner, products,
                     classified_products, in_locals, products_for_ai,
                     groups_left, all_results,
                     standardized_products, status_updates, result >>

\* the warm-up request fails: the exception is logged and swallowed
WarmUpFail(d) ==
    /\ pc[d] = "refresh"
    /\ LET okpd_group == Head(groups_left[d]).group
       IN  oracle_log' = [oracle_log EXCEPT ![d] = Append(@,
               Request("warmup", okpd_group, group_caches[d][okpd_group],
                       << >>, "failed", FALSE))]
    /\ current_time' = [current_time EXCEPT ![d] = 0]
    /\ pc' = [pc EXCEPT ![d] = "send"]
    /\ UNCHANGED << storeVars, now, cacheVars, cycles, runner, products,
                     classified_products, in_locals, products_for_ai,
                     groups_left, all_results,
                     standardized_products, status_updates, exc, result >>

\* the parsed map alone, without the loop that fills in the products the
\* response leaves out
GroupResultsNoFill(group_products, response) ==
    ParseResponse(response).results

\* the results of the group's products after a response: the parsed map,
\* with [] for every product of the group it leaves out
GroupResults(group_products, response) ==
    IF ParseResponse(response).raised
    THEN EmptyResults(group_products, << >>)
    ELSE FillMissing(group_products, ParseResponse(response).results)

\* the real request returns one of the raw texts of responses; the log
\* keeps the text and the end of _parse_response when traced
DispatchReturnAs(d, responses, traced) ==
    /\ pc[d] = "send"
    /\ LET okpd_group == Head(groups_left[d]).group
           group_products == Head(groups_left[d]).products
           entry(response) ==
               Request("dispatch", okpd_group, group_caches[d][okpd_group],
                       DynamicContent(group_products), "returned",
                       HasArray(response))
       IN  \E response \in responses :
            /\ all_results' = [all_results EXCEPT ![d] =
                   Update(@, GroupResults(group_products, response))]
            /\ oracle_log' = [oracle_log EXCEPT ![d] = Append(@,
                   IF traced
                   THEN Traced(entry(response), response,
                               ParseResponse(response))
                   ELSE entry(response))]
    /\ groups_left' = [groups_left EXCEPT ![d] = Tail(@)]
    /\ pc' = [pc EXCEPT ![d] = "group"]
    /\ UNCHANGED << storeVars, now, cacheVars, cycles, runner, products,
                     classified_products, in_locals, products_for_ai,
                     current_time, standardized_products, status_updates,
                     exc, result >>

DispatchReturn(d, responses) == DispatchReturnAs(d, responses, FALSE)

\* the ids an oracle text may name: those of the batch's products, of this
\* and of the other groups, and one id that is none of them (the first
\* record that is not a product of the batch, if there is one)
NamedIds(d) ==
    LET others == Records \ ProductIds(products_for_ai[d])
    IN  ProductIds(products_for_ai[d])
            \cup { r \in others : \A r2 \in others : r <= r2 }

\* the oracle answers with any text
DispatchOk(d) ==
    DispatchReturn(d, OracleResponses(NamedIds(d)))

\* the request is sent again for the same partition
DispatchRetry(d) ==
    /\ pc[d] = "send"
    /\ pc' = [pc EXCEPT ![d] = "group"]
    /\ UNCHANGED << storeVars, now, cacheVars, cycles, runner, products,
                     classified_products, in_locals, batchVars, exc, result >>

\* the oracle answers with an array that names no product
DispatchEmpty(d) ==
    DispatchReturn(d, { ArrayText(<< >>) })

\* the real request fails: every product of the group gets []
DispatchFail(d) ==
    /\ pc[d] = "send"
    /\ LET okpd_group == Head(groups_left[d]).group
           group_products == Head(groups_left[d]).products
       IN  /\ all_results' = [all_results EXCEPT ![d] =
                  EmptyResults(group_products, @)]
           /\ oracle_log' = [oracle_log EXCEPT ![d] = Append(@,
                  Request("dispatch", okpd_group,
                          group_caches[d][okpd_group],
                          DynamicContent(group_products), "failed", FALSE))]
    /\ groups_left' = [groups_left EXCEPT ![d] = Tail(@)]
    /\ pc' = [pc EXCEPT ![d] = "group"]
    /\ UNCHANGED << storeVars, now, cacheVars, cycles, runner, products,
                     classified_products, in_locals, products_for_ai,
                     current_time, standardized_products, status_updates,
                     exc, result >>

(***************************************************************************)
(* process_batch, step 4: the outcome of every product of product_map      *)
(***************************************************************************)
\* str.lower(), on ASCII
Lower(name) ==
    [i \in 1 .. Len(name) |->
        IF name[i] >= 65 /\ name[i] <= 90 THEN name[i] + 32 ELSE name[i]]

\* a in b, on strings
IsSubstring(a, b) ==
    \E i \in 0 .. Len(b) :
        /\ i + Len(a) <= Len(b)
        /\ SubSeq(b, i + 1, i + Len(a)) = a

\* the test with the comparison for equality only
IsStandardizedExact(attr_name, standardized_attrs) ==
    \E i \in 1 .. Len(standardized_attrs) :
        Lower(attr_name) = Lower(standardized_attrs[i].standard_name)

\* the test of the inner loop over standardized_attrs
IsStandardized(attr_name, standardized_attrs) ==
    \E i \in 1 .. Len(standardized_attrs) :
        LET attr_name_lower == Lower(attr_name)
            std_lower == Lower(standardized_attrs[i].standard_name)
        IN  \/ attr_name_lower = std_lower
            \/ IsSubstring(attr_name_lower, std_lower)
            \/ IsSubstring(std_lower, attr_name_lower)

\* the test the other way round: the attributes that were matched
RECURSIVE UnstandardizedMatched(_, _)
UnstandardizedMatched(original_attrs, standardized_attrs) ==
    IF original_attrs = << >> THEN << >>
    ELSE (IF IsStandardized(Head(original_attrs).attr_name,
                            standardized_attrs)
          THEN << Head(original_attrs) >>
          ELSE << >>)
             \o UnstandardizedMatched(Tail(original_attrs),
                                      standardized_attrs)

RECURSIVE Unstandardized(_, _)
Unstandardized(original_attrs, standardized_attrs) ==
    IF original_attrs = << >> THEN << >>
    ELSE (IF IsStandardized(Head(original_attrs).attr_name,
                            standardized_attrs)
          THEN << >>
          ELSE << Head(original_attrs) >>)
             \o Unstandardized(Tail(original_attrs), standardized_attrs)

StandardizedProduct(product, standardized_attrs) ==
    [old_mongo_id |-> classified_db[product.product_id].source_id,
     classified_mongo_id |-> product.product_id,
     collection_name |-> classified_db[product.product_id].source_collection,
     original_attributes |-> product.attributes,
     standardized_attributes |-> standardized_attrs,
     unstandardized_attributes |->
         Unstandardized(product.attributes, standardized_attrs)]

\* the entry of status_updates for a product, by whether
\* standardization_results has its id
StatusUpdateFor(product_id, results) ==
    IF product_id \in DOMAIN results
    THEN [id |-> product_id, standardization_status |-> "standardized",
          standardization_error |-> None]
    ELSE [id |-> product_id, standardization_status |-> "failed",
          standardization_error |-> "No standardization results"]

RECURSIVE StandardizedProducts(_, _)
StandardizedProducts(prods, results) ==
    IF prods = << >> THEN << >>
    ELSE (IF Head(prods).product_id \in DOMAIN results
          THEN << StandardizedProduct(Head(prods),
                                      results[Head(prods).product_id]) >>
          ELSE << >>)
             \o StandardizedProducts(Tail(prods), results)

StatusUpdates(prods, results) ==
    [i \in 1 .. Len(prods) |-> StatusUpdateFor(prods[i].product_id, results)]

\* standardize_batch returns all_results and the loop over product_map
\* builds standardized_products and status_updates
CollectResults(d) ==
    /\ pc[d] = "group"
    /\ groups_left[d] = << >>
    /\ standardized_products' = [standardized_products EXCEPT ![d] =
           StandardizedProducts(products_for_ai[d], all_results[d])]
    /\ status_updates' = [status_updates EXCEPT ![d] =
           StatusUpdates(products_for_ai[d], all_results[d])]
    /\ pc' = [pc EXCEPT ![d] =
           IF StandardizedProducts(products_for_ai[d], all_results[d])
                  # << >>
           THEN "insert" ELSE "status"]
    /\ UNCHANGED << storeVars, now, cacheVars, cycles, runner, products,
                     classified_products, in_locals, products_for_ai,
                     groups_left, all_results, current_time, exc, result,
                     oracle_log >>

(***************************************************************************)
(* process_batch, steps 5 and 6, and the handler                           *)
(***************************************************************************)
\* the filter of ReplaceOne: the key (old_mongo_id, collection_name) of a
\* standardized product
KeyOf(product) == << product.old_mongo_id, product.collection_name >>

\* the stored documents the filter of a product matches; the store is the
\* bag of its documents
Matching(db, product) ==
    { doc \in BagToSet(db) : KeyOf(doc) = KeyOf(product) }

\* a plain insert of the document, whatever the store holds
InsertOne(db, product) == db (+) SetToBag({product})

\* ReplaceOne(filter, product.dict(), upsert=True): one matching document
\* is replaced, and the document is inserted when none matches
ReplaceOne(db, product) ==
    IF Matching(db, product) = {}
    THEN db (+) SetToBag({product})
    ELSE LET doc == CHOOSE doc \in Matching(db, product) : TRUE
         IN  (db (-) SetToBag({doc})) (+) SetToBag({product})

\* the operations of bulk_operations applied in their order, for the
\* products of written
RECURSIVE Upsert(_, _, _)
Upsert(db, prods, written) ==
    IF prods = << >> THEN db
    ELSE Upsert(IF KeyOf(Head(prods)) \in written
                THEN ReplaceOne(db, Head(prods))
                ELSE db,
                Tail(prods), written)

\* bulk_write(ordered=False) applies the operations in an order of the
\* server's choice
Orders(n) ==
    { order \in [1 .. n -> 1 .. n] :
          \A i, j \in 1 .. n : order[i] = order[j] => i = j }

Reordered(prods, order) == [i \in 1 .. Len(prods) |-> prods[order[i]]]

BulkWrite(db, prods, written) ==
    { Upsert(db, Reordered(prods, order), written) :
          order \in Orders(Len(prods)) }

StandardizedKeys(d) ==
    { KeyOf(standardized_products[d][i]) :
          i \in 1 .. Len(standardized_products[d]) }

\* bulk_insert_products writes every product and returns
InsertOk(d) ==
    /\ pc[d] = "insert"
    /\ standardized_db' \in BulkWrite(standardized_db,
                                      standardized_products[d],
                                      StandardizedKeys(d))
    /\ pc' = [pc EXCEPT ![d] = "status"]
    /\ UNCHANGED << classified_db, stuck, now, cacheVars, cycles, runner, products,
                     classified_products, in_locals, batchVars, exc, result >>

\* bulk_write raises BulkWriteError after writing only some of the
\* products: bulk_insert_products logs it and returns
InsertPartial(d) ==
    /\ pc[d] = "insert"
    /\ \E written \in SUBSET StandardizedKeys(d) :
        /\ written # StandardizedKeys(d)
        /\ standardized_db' \in BulkWrite(standardized_db,
                                          standardized_products[d], written)
    /\ pc' = [pc EXCEPT ![d] = "status"]
    /\ UNCHANGED << classified_db, stuck, now, cacheVars, cycles, runner, products,
                     classified_products, in_locals, batchVars, exc, result >>

\* bulk_write raises another exception, after writing some of the products
\* or none: it leaves bulk_insert_products and reaches the handler
InsertRaise(d) ==
    /\ pc[d] = "insert"
    /\ \E written \in SUBSET StandardizedKeys(d) :
        /\ written # StandardizedKeys(d)
        /\ standardized_db' \in BulkWrite(standardized_db,
                                          standardized_products[d], written)
    /\ exc' = [exc EXCEPT ![d] = DownstreamError]
    /\ pc' = [pc EXCEPT ![d] = "handler"]
    /\ UNCHANGED << classified_db, stuck, now, cacheVars, cycles, runner, products,
                     classified_products, in_locals, batchVars, result >>

\* UpdateOne({"_id": id}, {"$set": data}) for every update, in order
RECURSIVE ApplyUpdates(_, _)
ApplyUpdates(db, updates) ==
    IF updates = << >> THEN db
    ELSE LET u == Head(updates)
         IN  ApplyUpdates(
                 [db EXCEPT
                    ![u.id].standardization_status = u.standardization_status,
                    ![u.id].standardization_error =
                        IF u.standardization_status = "failed"
                        THEN u.standardization_error ELSE @],
                 Tail(updates))

Count(updates, status) ==
    Cardinality({ i \in 1 .. Len(updates) :
                      updates[i].standardization_status = status })

\* bulk_update_status(status_updates) returns and process_batch returns
UpdateStatusOk(d) ==
    /\ pc[d] = "status"
    /\ classified_db' = ApplyUpdates(classified_db, status_updates[d])
    /\ result' = [result EXCEPT ![d] =
           [total |-> Len(classified_products[d]),
            standardized |-> Count(status_updates[d], "standardized"),
            failed |-> Count(status_updates[d], "failed")]]
    /\ pc' = [pc EXCEPT ![d] = "done"]
    /\ UNCHANGED << stuck, standardized_db, now, cacheVars, cycles, runner, products,
                     classified_products, in_locals, batchVars, exc >>

\* bulk_update_status(status_updates) raises
UpdateStatusRaise(d) ==
    /\ pc[d] = "status"
    /\ exc' = [exc EXCEPT ![d] = UpstreamError]
    /\ pc' = [pc EXCEPT ![d] = "handler"]
    /\ UNCHANGED << storeVars, now, cacheVars, cycles, runner, products,
                     classified_products, in_locals, batchVars, result >>

\* the updates of the handler: every document of classified_products is
\* failed with str(e); none when classified_products is not bound
FailedUpdates(d) ==
    IF in_locals[d]
    THEN [i \in 1 .. Len(classified_products[d]) |->
             [id |-> classified_products[d][i],
              standardization_status |-> "failed",
              standardization_error |-> exc[d]]]
    ELSE << >>

\* a handler that also deletes what the cycle has written downstream
HandlerRollback(d) ==
    /\ pc[d] = "handler"
    /\ classified_db' = ApplyUpdates(classified_db, FailedUpdates(d))
    /\ standardized_db' =
           [doc \in { x \in BagToSet(standardized_db) :
                          KeyOf(x) \notin StandardizedKeys(d) }
               |-> standardized_db[doc]]
    /\ pc' = [pc EXCEPT ![d] = "raised"]
    /\ UNCHANGED << stuck, now, cacheVars, cycles, runner, products,
                     classified_products, in_locals, batchVars, exc, result >>

\* the handler's bulk_update_status returns (or there is nothing to
\* update) and the exception is raised again
HandlerRaise(d) ==
    /\ pc[d] = "handler"
    /\ classified_db' = ApplyUpdates(classified_db, FailedUpdates(d))
    /\ pc' = [pc EXCEPT ![d] = "raised"]
    /\ UNCHANGED << stuck, standardized_db, now, cacheVars, cycles, runner, products,
                     classified_products, in_locals, batchVars, exc, result >>

\* the handler's bulk_update_status raises: its exception replaces the
\* one being handled
HandlerError == "classified store error in the handler"

HandlerFail(d) ==
    /\ pc[d] = "handler"
    /\ FailedUpdates(d) # << >>
    /\ exc' = [exc EXCEPT ![d] = HandlerError]
    /\ pc' = [pc EXCEPT ![d] = "raised"]
    /\ UNCHANGED << storeVars, now, cacheVars, cycles, runner, products,
                     classified_products, in_locals, batchVars, result >>

(***************************************************************************)
(* The cleanup endpoint and the passing of time in the store               *)
(***************************************************************************)
\* thirty minutes pass: every claim made so far is older than the
\* threshold of cleanup_stuck_products
ThirtyMinutesPass ==
    /\ \E r \in Records : /\ classified_db[r].standardization_status
                                 = "processing"
                          /\ r \notin stuck
    /\ stuck' = stuck \cup { r \in Records :
                     classified_db[r].standardization_status = "processing" }
    /\ UNCHANGED << classified_db, standardized_db, now, cacheVars, pc,
                     cycles, runner, products, classified_products, in_locals,
                     batchVars, exc, result >>

\* the filter without the condition on standardization_status
StuckFilterAnyStatus(r) == r \in stuck

\* the filter without the condition on standardization_started_at
StuckFilterNoAge(r) ==
    classified_db[r].standardization_status = "processing"

\* the filter of cleanup_stuck_products's update_many
StuckFilter(r) ==
    /\ classified_db[r].standardization_status = "processing"
    /\ r \in stuck

CleanupStuck ==
    /\ \E r \in Records : StuckFilter(r)
    /\ classified_db' = [r \in Records |->
           IF StuckFilter(r)
           THEN [classified_db[r] EXCEPT !.standardization_status = "pending"]
           ELSE classified_db[r]]
    /\ UNCHANGED << stuck, standardized_db, now, cacheVars, pc, cycles, runner,
                     products, classified_products, in_locals, batchVars,
                     exc, result >>

\* the filter of reset_failed_products's update_many
ResetFilter(doc) ==
    /\ doc.status_stage2 = "classified"
    /\ doc.standardization_status = "failed"

\* the reset-failed endpoint: update_many sets every failed document to
\* pending
ResetFailed ==
    /\ \E r \in Records : ResetFilter(classified_db[r])
    /\ classified_db' = [r \in Records |->
           IF ResetFilter(classified_db[r])
           THEN [classified_db[r] EXCEPT !.standardization_status = "pending"]
           ELSE classified_db[r]]
    /\ UNCHANGED << stuck, standardized_db, now, cacheVars, pc, cycles, runner,
                     products, classified_products, in_locals, batchVars,
                     exc, result >>

(***************************************************************************)
(* The continuous runner, _run_without_grouping: pc "idle" is the top of   *)
(* its loop, "empty" the branch of a zero count.                           *)
(***************************************************************************)
\* the filter of the runner's count_documents
CountFilter(doc) ==
    /\ doc.status_stage2 = "classified"
    /\ doc.standardization_status \in {"absent", "pending"}

Polls(d) ==
    Cardinality({ i \in 1 .. Len(runner[d].log) :
                    runner[d].log[i].event = "poll" })

Logged(d, event, value) ==
    runner' = [runner EXCEPT ![d].log =
                  Append(@, [event |-> event, value |-> value])]

\* the runner counts the pending documents: with a count of zero it goes
\* to its sleep, otherwise it calls process_batch; count_documents may
\* raise
RunnerPoll(d) ==
    LET count == Cardinality({ r \in Records : CountFilter(classified_db[r]) })
    IN  /\ Polls(d) < MaxPolls
        /\ \/ /\ pc[d] = "idle"
              /\ count = 0
              /\ pc' = [pc EXCEPT ![d] = "empty"]
              /\ Logged(d, "poll", count)
              /\ UNCHANGED << storeVars, now, cacheVars, cycles, products,
                               classified_products, in_locals, batchVars,
                               exc, result >>
           \/ /\ count > 0
              /\ StartCycleAt(d, {"idle"}, MaxCycles)
              /\ runner' = [runner EXCEPT ![d].log =
                     @ \o << [event |-> "poll", value |-> count],
                             [event |-> "process_batch",
                              value |-> cycles[d] + 1] >>]
           \/ /\ pc[d] = "idle"
              /\ pc' = [pc EXCEPT ![d] = "raised"]
              /\ exc' = [exc EXCEPT ![d] = UpstreamError]
              /\ Logged(d, "poll", 0 - 1)
              /\ UNCHANGED << storeVars, now, cacheVars, cycles, products,
                               classified_products, in_locals, batchVars,
                               result >>

\* a pass of the loop that ends without a pause
BusyWait(d) == {0}

\* the sleep that ends a pass of the loop: 30 seconds after a zero count,
\* 30 seconds after an empty result (60 when the count of the documents
\* in processing raises), RATE_LIMIT_DELAY after another result, 60
\* seconds after an exception
SleepSeconds(d) ==
    IF pc[d] = "raised" THEN {60}
    ELSE IF pc[d] = "empty" THEN {30}
    ELSE IF result[d].total = 0 THEN {30, 60}
    ELSE {RATE_LIMIT_DELAY}

\* a loop without the except branch: the exception of a cycle ends it
RunnerStopsOnRaise(d) ==
    /\ pc[d] \in {"empty", "done"}
    /\ pc' = [pc EXCEPT ![d] = "idle"]
    /\ \E seconds \in SleepSeconds(d) : Logged(d, "sleep", seconds)
    /\ UNCHANGED << storeVars, now, cacheVars, cycles, products,
                     classified_products, in_locals, batchVars, exc, result >>

\* a loop that resets the documents in processing before it sleeps
RunnerSleepAndReset(d) ==
    /\ pc[d] \in {"empty", "done", "raised"}
    /\ pc' = [pc EXCEPT ![d] = "idle"]
    /\ \E seconds \in SleepSeconds(d) : Logged(d, "sleep", seconds)
    /\ classified_db' = [r \in Records |->
           IF classified_db[r].standardization_status = "processing"
           THEN [classified_db[r] EXCEPT !.standardization_status = "pending"]
           ELSE classified_db[r]]
    /\ UNCHANGED << stuck, standardized_db, now, cacheVars, cycles, products,
                     classified_products, in_locals, batchVars, exc, result >>

\* the loop goes on to its next pass without the sleep
RunnerNoSleep(d) ==
    /\ pc[d] \in {"empty", "done", "raised"}
    /\ pc' = [pc EXCEPT ![d] = "idle"]
    /\ UNCHANGED << storeVars, now, cacheVars, cycles, runner, products,
                     classified_products, in_locals, batchVars, exc, result >>

RunnerSleep(d) ==
    /\ pc[d] \in {"empty", "done", "raised"}
    /\ pc' = [pc EXCEPT ![d] = "idle"]
    /\ \E seconds \in SleepSeconds(d) : Logged(d, "sleep", seconds)
    /\ UNCHANGED << storeVars, now, cacheVars, cycles, products,
                     classified_products, in_locals, batchVars, exc, result >>

(***************************************************************************)
(* The grouped runner, _run_with_okpd_grouping: pc "codes" is the top of   *)
(* its inner while loop, for the code at the head of runner.codes.         *)
(***************************************************************************)
\* the group key the grouped runner builds from a code
GroupedKey(code) == SubSeq(code, 1, 2) \o << Dot >> \o SubSeq(code, 3, 4)

\* the runner aggregates the pending documents by code, keeps the codes of
\* four characters or more whose group key the catalog has, and orders
\* them by group key (within a group, in the order of the aggregation)
GroupedPoll(d) ==
    LET okpd_codes == { classified_db[r].okpd2_code :
                           r \in { r \in Records :
                                      CountFilter(classified_db[r]) } }
        codes == { code \in okpd_codes :
                      /\ Len(code) >= 4
                      /\ GroupedKey(code) \in DOMAIN okpd2_standards[d] }
        n == Cardinality(codes)
    IN  /\ pc[d] = "idle"
        /\ Polls(d) < MaxPolls
        /\ \/ /\ codes = {}
              /\ pc' = [pc EXCEPT ![d] = "empty"]
              /\ Logged(d, "poll", 0)
              /\ UNCHANGED exc
           \/ /\ codes # {}
              /\ pc' = [pc EXCEPT ![d] = "codes"]
              /\ \E sorted \in [1 .. n -> codes] :
                     /\ \A i, j \in 1 .. n :
                            i < j => /\ sorted[i] # sorted[j]
                                     /\ ~ StrLess(GroupedKey(sorted[j]),
                                                  GroupedKey(sorted[i]))
                     /\ runner' = [runner EXCEPT
                            ![d].codes = sorted,
                            ![d].log = Append(@, [event |-> "poll",
                                                  value |-> n])]
              /\ UNCHANGED exc
           \/ /\ pc' = [pc EXCEPT ![d] = "raised"]
              /\ exc' = [exc EXCEPT ![d] = UpstreamError]
              /\ Logged(d, "poll", 0 - 1)
        /\ UNCHANGED << storeVars, now, cacheVars, cycles, products,
                         classified_products, in_locals, batchVars, result >>

\* process_batch(okpd_prefix=code) for the code at the head
GroupedCall(d) ==
    /\ runner[d].codes # << >>
    /\ StartCycleAt(d, {"codes"}, MaxPolls * 2 * NumRecords)
    /\ runner' = [runner EXCEPT
           ![d].okpd_prefix = Head(runner[d].codes),
           ![d].log = Append(@, [event |-> "process_batch",
                                 value |-> Head(runner[d].codes)])]

\* process_batch returned a result with a positive total since the last
\* aggregation
ProcessedAny(d) ==
    \E i \in 1 .. Len(runner[d].log) :
        /\ runner[d].log[i].event = "result"
        /\ runner[d].log[i].value > 0
        /\ \A j \in i .. Len(runner[d].log) :
               runner[d].log[j].event # "poll"

\* a runner without the inner loop: one call of process_batch for a code
GroupedReturnOneBatch(d) ==
    /\ \/ /\ pc[d] = "done"
          /\ pc' = [pc EXCEPT ![d] = "codes"]
          /\ runner' = [runner EXCEPT
                 ![d].codes = Tail(@),
                 ![d].log = @ \o << [event |-> "result",
                                     value |-> result[d].total],
                                    [event |-> "sleep",
                                     value |-> RATE_LIMIT_DELAY] >>]
       \/ /\ pc[d] = "raised"
          /\ pc' = [pc EXCEPT ![d] = "idle"]
          /\ runner' = [runner EXCEPT
                 ![d].codes = << >>,
                 ![d].log = Append(@, [event |-> "sleep", value |-> 60])]
       \/ /\ pc[d] \in {"codes", "empty"}
          /\ pc[d] = "codes" => runner[d].codes = << >>
          /\ pc' = [pc EXCEPT ![d] = "idle"]
          /\ Logged(d, "sleep", 30)
    /\ UNCHANGED << storeVars, now, cacheVars, cycles, products,
                     classified_products, in_locals, batchVars, exc, result >>

\* what follows a return of process_batch (the break of the inner loop on
\* total == 0, the pacing delay otherwise), its exception, the end of the
\* loops over the codes, and an empty aggregation
GroupedReturn(d) ==
    /\ \/ /\ pc[d] = "done"
          /\ pc' = [pc EXCEPT ![d] = "codes"]
          /\ IF result[d].total = 0
             THEN runner' = [runner EXCEPT
                      ![d].codes = Tail(@),
                      ![d].log = Append(@, [event |-> "result",
                                            value |-> 0])]
             ELSE runner' = [runner EXCEPT ![d].log =
                      @ \o << [event |-> "result",
                               value |-> result[d].total],
                              [event |-> "sleep",
                               value |-> RATE_LIMIT_DELAY] >>]
       \/ /\ pc[d] = "raised"
          /\ pc' = [pc EXCEPT ![d] = "idle"]
          /\ runner' = [runner EXCEPT
                 ![d].codes = << >>,
                 ![d].log = Append(@, [event |-> "sleep", value |-> 60])]
       \/ /\ pc[d] = "codes"
          /\ runner[d].codes = << >>
          /\ pc' = [pc EXCEPT ![d] = "idle"]
          /\ IF ProcessedAny(d) THEN UNCHANGED runner
             ELSE Logged(d, "sleep", 30)
       \/ /\ pc[d] = "empty"
          /\ pc' = [pc EXCEPT ![d] = "idle"]
          /\ Logged(d, "sleep", 30)
    /\ UNCHANGED << storeVars, now, cacheVars, cycles, products,
                     classified_products, in_locals, batchVars, exc, result >>

(***************************************************************************)
(* Specifications.                                                         *)
(***************************************************************************)
\* a classified document that no dispatcher has claimed yet, with both
\* spellings of the stage field
NewDoc(source_id, okpd2_code, source_collection) ==
    [source_id |-> source_id,
     status_stg2 |-> "classified",
     status_stage2 |-> "classified",
     okpd2_code |-> okpd2_code,
     source_collection |-> source_collection,
     standardization_status |-> "absent",
     standardization_error |-> None]

\* the collections the runs start from: an unmapped code, two products of
\* one group (one of them a tender) and a product of another group; and a
\* group without catalog rules, a tender, a two-digit code and an unmapped
\* code
CollectionA ==
    [r \in Records |->
        IF r = 1 THEN NewDoc(r, Str[""], "products")
        ELSE IF r = 2 THEN NewDoc(r, Str["26.20.1"], "products")
        ELSE IF r = 3 THEN NewDoc(r, Str["26.20.1"], "tender")
        ELSE NewDoc(r, Str["1712"], "products")]

CollectionB ==
    [r \in Records |->
        IF r = 1 THEN NewDoc(r, Str["9999"], "products")
        ELSE IF r = 2 THEN NewDoc(r, Str["1712"], "tender")
        ELSE IF r = 3 THEN NewDoc(r, Str["26"], "products")
        ELSE NewDoc(r, Str["262"], "products")]

Collections == {CollectionA, CollectionB}

InitLocals ==
    /\ stuck = {}
    /\ standardized_db = EmptyBag
    /\ now = StartTime
    /\ okpd2_standards = [d \in Dispatchers |-> CatalogFile]
    /\ group_caches = [d \in Dispatchers |-> EmptyMap]
    /\ last_cache_refresh = [d \in Dispatchers |-> EmptyMap]
    /\ pc = [d \in Dispatchers |-> "idle"]
    /\ cycles = [d \in Dispatchers |-> 0]
    /\ products = [d \in Dispatchers |-> << >>]
    /\ classified_products = [d \in Dispatchers |-> << >>]
    /\ in_locals = [d \in Dispatchers |-> FALSE]
    /\ products_for_ai = [d \in Dispatchers |-> << >>]
    /\ groups_left = [d \in Dispatchers |-> << >>]
    /\ all_results = [d \in Dispatchers |-> << >>]
    /\ current_time = [d \in Dispatchers |-> 0]
    /\ standardized_products = [d \in Dispatchers |-> << >>]
    /\ status_updates = [d \in Dispatchers |-> << >>]
    /\ exc = [d \in Dispatchers |-> None]
    /\ result = [d \in Dispatchers |->
                    [total |-> 0, standardized |-> 0, failed |-> 0]]
    /\ oracle_log = [d \in Dispatchers |-> << >>]
    /\ runner = [d \in Dispatchers |->
                    [log |-> << >>, okpd_prefix |-> << >>, codes |-> << >>]]

\* two dispatchers claiming from one collection, each document of which
\* is pending (its status field missing, or "pending") or standardized
InitClaim ==
    /\ classified_db \in
           { [r \in Records |->
                [CollectionA[r] EXCEPT !.standardization_status = st[r]]] :
             st \in [Records -> {"absent", "pending", "standardized"}] }
    /\ InitLocals

NextClaim ==
    \E d \in Dispatchers :
        \/ StartCycle(d)
        \/ ClaimOne(d)
        \/ ClaimReturn(d)

SpecClaim == InitClaim /\ [][NextClaim]_vars

\* one dispatcher running dispatch cycles
Init ==
    /\ classified_db \in Collections
    /\ InitLocals

Step(d) ==
    \/ StartCycle(d)
    \/ ClaimOne(d)
    \/ ClaimReturn(d)
    \/ ClaimRaise(d)
    \/ Prepare(d)
    \/ PartitionUnmapped(d)
    \/ PartitionNoStandards(d)
    \/ PartitionStart(d)
    \/ WarmUpOk(d)
    \/ WarmUpFail(d)
    \/ DispatchOk(d)
    \/ DispatchFail(d)
    \/ CollectResults(d)
    \/ InsertOk(d)
    \/ InsertPartial(d)
    \/ InsertRaise(d)
    \/ UpdateStatusOk(d)
    \/ UpdateStatusRaise(d)
    \/ HandlerRaise(d)
    \/ HandlerFail(d)

Next == Step("d1")

Spec == Init /\ [][Next]_vars

\* the same with the cleanup endpoint called while the dispatcher runs
StepStuck(d) ==
    \/ StartCycle(d)
    \/ ClaimOne(d)
    \/ ClaimReturn(d)
    \/ Prepare(d)
    \/ PartitionUnmapped(d)
    \/ PartitionNoStandards(d)
    \/ PartitionStartNow(d)
    \/ WarmUpOk(d)
    \/ DispatchEmpty(d)
    \/ CollectResults(d)
    \/ InsertOk(d)
    \/ UpdateStatusOk(d)
    \/ UpdateStatusRaise(d)
    \/ HandlerRaise(d)

NextStuck ==
    \/ StepStuck("d1")
    \/ ThirtyMinutesPass
    \/ CleanupStuck

InitStuck ==
    /\ classified_db \in Collections
    /\ InitLocals

SpecStuck == InitStuck /\ [][NextStuck]_vars

\* the continuous runner of one dispatcher; the first document of the
\* second collection carries the stage under "status_stage2" only
InitRunner ==
    /\ classified_db \in
           { CollectionA,
             [CollectionA EXCEPT ![1].status_stg2 = "absent"] }
    /\ InitLocals

StepRunner(d) ==
    \/ RunnerPoll(d)
    \/ ClaimOne(d)
    \/ ClaimReturn(d)
    \/ ClaimRaise(d)
    \/ Prepare(d)
    \/ PartitionUnmapped(d)
    \/ PartitionStartNow(d)
    \/ WarmUpOk(d)
    \/ DispatchEmpty(d)
    \/ CollectResults(d)
    \/ InsertOk(d)
    \/ UpdateStatusOk(d)
    \/ UpdateStatusRaise(d)
    \/ HandlerRaise(d)
    \/ RunnerSleep(d)

NextRunner == StepRunner("d1")

\* the runner is one coroutine that the event loop keeps running: a step
\* that remains possible is taken
SpecRunner == InitRunner /\ [][NextRunner]_vars /\ WF_vars(NextRunner)

\* the same with the cleanup endpoint called while the runner runs, on a
\* collection of which two documents are pending
InitRunnerStuck ==
    /\ classified_db =
           [r \in Records |->
               IF r <= 2 THEN CollectionA[r]
               ELSE [CollectionA[r] EXCEPT
                        !.standardization_status = "standardized"]]
    /\ InitLocals

NextRunnerStuck ==
    \/ StepRunner("d1")
    \/ ThirtyMinutesPass
    \/ CleanupStuck

SpecRunnerStuck == InitRunnerStuck /\ [][NextRunnerStuck]_vars

\* the runner's loop without its log and without the count of its cycles:
\* the poll, and the call of process_batch when the count is not zero
RunnerPollUnlogged(d) ==
    LET count == Cardinality({ r \in Records : CountFilter(classified_db[r]) })
    IN  /\ pc[d] = "idle"
        /\ IF count = 0
           THEN /\ pc' = [pc EXCEPT ![d] = "empty"]
                /\ UNCHANGED << products, classified_products, in_locals,
                                 batchVars, exc, result >>
           ELSE /\ pc' = [pc EXCEPT ![d] = "claim"]
                /\ products' = [products EXCEPT ![d] = << >>]
                /\ classified_products' =
                       [classified_products EXCEPT ![d] = << >>]
                /\ in_locals' = [in_locals EXCEPT ![d] = FALSE]
                /\ products_for_ai' = [products_for_ai EXCEPT ![d] = << >>]
                /\ groups_left' = [groups_left EXCEPT ![d] = << >>]
                /\ all_results' = [all_results EXCEPT ![d] = << >>]
                /\ standardized_products' =
                       [standardized_products EXCEPT ![d] = << >>]
                /\ status_updates' = [status_updates EXCEPT ![d] = << >>]
                /\ exc' = [exc EXCEPT ![d] = None]
                /\ result' = [result EXCEPT ![d] =
                       [total |-> 0, standardized |-> 0, failed |-> 0]]
                /\ oracle_log' = [oracle_log EXCEPT ![d] = << >>]
                /\ UNCHANGED current_time
        /\ UNCHANGED << storeVars, now, cacheVars, cycles, runner >>

\* the sleep after the poll or the cycle, and back to the top of the loop
RunnerSleepUnlogged(d) ==
    /\ pc[d] \in {"empty", "done", "raised"}
    /\ pc' = [pc EXCEPT ![d] = "idle"]
    /\ UNCHANGED << storeVars, now, cacheVars, cycles, runner, products,
                     classified_products, in_locals, batchVars, exc, result >>

\* the runner of one worker, for as long as it runs: its store calls may
\* raise, and the coroutine is always scheduled again
NextProgress ==
    \E d \in {"d1"} :
        \/ RunnerPollUnlogged(d)
        \/ ClaimOne(d)
        \/ ClaimReturn(d)
        \/ ClaimRaise(d)
        \/ Prepare(d)
        \/ PartitionUnmapped(d)
        \/ PartitionStartNow(d)
        \/ WarmUpOk(d)
        \/ DispatchEmpty(d)
        \/ CollectResults(d)
        \/ InsertOk(d)
        \/ UpdateStatusOk(d)
        \/ UpdateStatusRaise(d)
        \/ HandlerRaise(d)
        \/ RunnerSleepUnlogged(d)

SpecProgress == InitRunner /\ [][NextProgress]_vars /\ WF_vars(NextProgress)

\* two workers over a collection with one pending document, with the
\* passing of time and the two reset endpoints interleaved
InitTakeover ==
    /\ classified_db =
           [r \in Records |->
               IF r = 1 THEN CollectionA[r]
               ELSE [CollectionA[r] EXCEPT
                        !.standardization_status = "standardized"]]
    /\ InitLocals

NextTakeover ==
    \/ \E d \in Dispatchers :
           \/ StartCycle(d)
           \/ ClaimOne(d)
           \/ ClaimReturn(d)
           \/ Prepare(d)
           \/ PartitionUnmapped(d)
           \/ CollectResults(d)
           \/ InsertOk(d)
           \/ UpdateStatusOk(d)
           \/ UpdateStatusRaise(d)
           \/ HandlerRaise(d)
    \/ ThirtyMinutesPass
    \/ CleanupStuck
    \/ ResetFailed

SpecTakeover == InitTakeover /\ [][NextTakeover]_vars

\* the grouped runner of one dispatcher, on a collection with two codes of
\* one group, a code of another group and codes the runner leaves out;
\* every step that is enabled is taken in the end
InitGrouped ==
    /\ classified_db =
           [r \in Records |->
               IF r = 1 THEN NewDoc(r, Str["2630"], "tender")
               ELSE IF r = 2 THEN NewDoc(r, Str["2620"], "tender")
               ELSE IF r = 3 THEN NewDoc(r, Str["262011"], "tender")
               ELSE NewDoc(r, Str["26.20.1"], "tender")]
    /\ InitLocals

NextGrouped ==
    \E d \in {"d1"} :
        \/ GroupedPoll(d)
        \/ GroupedCall(d)
        \/ ClaimOne(d)
        \/ ClaimReturn(d)
        \/ Prepare(d)
        \/ PartitionStartNow(d)
        \/ WarmUpOk(d)
        \/ DispatchEmpty(d)
        \/ CollectResults(d)
        \/ InsertOk(d)
        \/ UpdateStatusOk(d)
        \/ UpdateStatusRaise(d)
        \/ HandlerRaise(d)
        \/ GroupedReturn(d)

SpecGrouped == InitGrouped /\ [][NextGrouped]_vars /\ WF_vars(NextGrouped)

\* cycles over the same collection, whose batches have a partition of the
\* group 26.30 and one of the group 26.20; the oracle answers with a text
\* without an array, with an array that is not well-formed, with an array
\* of objects or with an array whose second element is a number, and the
\* transport may fail
NextPartitions ==
    \E d \in {"d1"} :
        \/ StartCycle(d)
        \/ ClaimOne(d)
        \/ ClaimReturn(d)
        \/ Prepare(d)
        \/ PartitionStartNow(d)
        \/ WarmUpOk(d)
        \/ DispatchReturnAs(d,
               OracleResponses(NamedIds(d))
                   \cup { ArrayText(<< Object(id, << >>), Token("number") >>) :
                              id \in NamedIds(d) },
               TRUE)
        \/ DispatchFail(d)
        \/ CollectResults(d)
        \/ InsertOk(d)
        \/ UpdateStatusOk(d)

SpecPartitions == InitGrouped /\ [][NextPartitions]_vars

\* a collection in which two classified documents come from one source
\* document, with the reset-failed endpoint called between the cycles
CollectionC ==
    [r \in Records |->
        IF r = 2 THEN NewDoc(r, Str["1712"], "tender")
        ELSE NewDoc(1, Str["26.20.1"], "products")]

InitUpsert ==
    /\ classified_db = CollectionC
    /\ InitLocals

StepUpsert(d) ==
    \/ StartCycle(d)
    \/ ClaimOne(d)
    \/ ClaimReturn(d)
    \/ Prepare(d)
    \/ PartitionStartNow(d)
    \/ WarmUpOk(d)
    \/ DispatchOk(d)
    \/ CollectResults(d)
    \/ InsertOk(d)
    \/ UpdateStatusOk(d)
    \/ UpdateStatusRaise(d)
    \/ HandlerRaise(d)

NextUpsert ==
    \/ StepUpsert("d1")
    \/ ResetFailed

SpecUpsert == InitUpsert /\ [][NextUpsert]_vars

(***************************************************************************)
(* _get_okpd_group on any code and any catalog                             *)
(***************************************************************************)
\* codes of every stripped length from 0 to 5, with and without dots
Codes ==
    {Str[""], << Dot >>, << Digit(2) >>, Str["26"], Str["2.6"],
     << Digit(1), Digit(7) >>, << Digit(9), Digit(9) >>, Str["262"],
     << Digit(2), Digit(6), Dot, Digit(2) >>, Str["1712"], Str["9999"], Str["26.20.1"]}

\* the catalogs _load_standards can return: the file has any of the keys,
\* among them one shorter than the others and one that starts with 26 but
\* not with "26."
Catalogs ==
    { [key \in keys |-> IF key \in DOMAIN CatalogFile
                         THEN CatalogFile[key] ELSE "rules"] :
          keys \in SUBSET {Str["26.20"], Str["26.30"], Str["17.12"],
                            Str["26.1"], Str["261.0"]} }

\* the first and the last document have the code, and the one between
\* them a code of the group 26.20
CollectionOf(okpd2_code) ==
    [r \in Records |->
        IF r = 2 THEN NewDoc(r, Str["26.20.1"], "tender")
        ELSE NewDoc(r, okpd2_code, "tender")]

InitResolve ==
    /\ classified_db \in { CollectionOf(okpd2_code) : okpd2_code \in Codes }
    /\ stuck = {}
    /\ standardized_db = EmptyBag
    /\ now = StartTime
    /\ okpd2_standards \in
           { [d \in Dispatchers |-> standards] : standards \in Catalogs }
    /\ group_caches = [d \in Dispatchers |-> EmptyMap]
    /\ last_cache_refresh = [d \in Dispatchers |-> EmptyMap]
    /\ pc = [d \in Dispatchers |-> "idle"]
    /\ cycles = [d \in Dispatchers |-> 0]
    /\ products = [d \in Dispatchers |-> << >>]
    /\ classified_products = [d \in Dispatchers |-> << >>]
    /\ in_locals = [d \in Dispatchers |-> FALSE]
    /\ products_for_ai = [d \in Dispatchers |-> << >>]
    /\ groups_left = [d \in Dispatchers |-> << >>]
    /\ all_results = [d \in Dispatchers |-> << >>]
    /\ current_time = [d \in Dispatchers |-> 0]
    /\ standardized_products = [d \in Dispatchers |-> << >>]
    /\ status_updates = [d \in Dispatchers |-> << >>]
    /\ exc = [d \in Dispatchers |-> None]
    /\ result = [d \in Dispatchers |->
                    [total |-> 0, standardized |-> 0, failed |-> 0]]
    /\ oracle_log = [d \in Dispatchers |-> << >>]
    /\ runner = [d \in Dispatchers |->
                    [log |-> << >>, okpd_prefix |-> << >>, codes |-> << >>]]

StepResolve(d) ==
    \/ StartCycle(d)
    \/ ClaimOne(d)
    \/ ClaimReturn(d)
    \/ Prepare(d)
    \/ PartitionUnmapped(d)
    \/ PartitionNoStandards(d)
    \/ PartitionStartNow(d)
    \/ WarmUpOk(d)
    \/ DispatchEmpty(d)
    \/ CollectResults(d)
    \/ InsertOk(d)
    \/ UpdateStatusOk(d)

NextResolve == StepResolve("d1")

SpecResolve == InitResolve /\ [][NextResolve]_vars

(***************************************************************************)
(* process_batch, step 4, on any attribute lists                           *)
(***************************************************************************)
\* the longest attribute list of a product and of an oracle element
MaxAttrs == 2

\* the sequences over a set of length at most n
SeqsUpTo(S, n) == UNION { [1 .. k -> S] : k \in 0 .. n }

\* the attribute lists a source document holds
OriginalAttributeLists ==
    SeqsUpTo({ [attr_name |-> name, attr_value |-> "v"] :
                   name \in {Str["Ab"], Str["cd"], Str["b"], Str[""]} }, MaxAttrs)

\* the attribute lists standardize_batch returns for a product
StandardizedAttributeLists ==
    SeqsUpTo({ [standard_name |-> name, standard_value |-> "s",
                characteristic_type |-> "t"] :
                   name \in {Str["ab"], Str["b"], Str["ABC"], Str[""]} }, MaxAttrs)

\* standardize_batch has returned the outcome of the one product of the
\* batch, record 3
InitOutcome ==
    /\ classified_db = [CollectionA EXCEPT
                           ![3].standardization_status = "processing"]
    /\ stuck = {}
    /\ standardized_db = EmptyBag
    /\ now = StartTime
    /\ okpd2_standards = [d \in Dispatchers |-> CatalogFile]
    /\ group_caches = [d \in Dispatchers |-> EmptyMap]
    /\ last_cache_refresh = [d \in Dispatchers |-> EmptyMap]
    /\ pc = [d \in Dispatchers |-> IF d = "d1" THEN "group" ELSE "idle"]
    /\ cycles = [d \in Dispatchers |-> IF d = "d1" THEN 1 ELSE 0]
    /\ products = [d \in Dispatchers |-> IF d = "d1" THEN << 3 >> ELSE << >>]
    /\ classified_products = products
    /\ in_locals = [d \in Dispatchers |-> d = "d1"]
    /\ \E original_attrs \in OriginalAttributeLists :
           products_for_ai = [d \in Dispatchers |->
               IF d = "d1"
               THEN << [product_id |-> 3,
                        okpd2_code |-> classified_db[3].okpd2_code,
                        attributes |-> original_attrs] >>
               ELSE << >>]
    /\ groups_left = [d \in Dispatchers |-> << >>]
    /\ \E standardized_attrs \in StandardizedAttributeLists :
           all_results = [d \in Dispatchers |->
               IF d = "d1" THEN 3 :> standardized_attrs ELSE << >>]
    /\ current_time = [d \in Dispatchers |-> 0]
    /\ standardized_products = [d \in Dispatchers |-> << >>]
    /\ status_updates = [d \in Dispatchers |-> << >>]
    /\ exc = [d \in Dispatchers |-> None]
    /\ result = [d \in Dispatchers |->
                    [total |-> 0, standardized |-> 0, failed |-> 0]]
    /\ oracle_log = [d \in Dispatchers |-> << >>]
    /\ runner = [d \in Dispatchers |->
                    [log |-> << >>, okpd_prefix |-> << >>, codes |-> << >>]]

NextOutcome ==
    \/ CollectResults("d1")
    \/ InsertOk("d1")
    \/ UpdateStatusOk("d1")

SpecOutcome == InitOutcome /\ [][NextOutcome]_vars

(***************************************************************************)
(* Properties of a dispatch cycle.                                         *)
(***************************************************************************)
\* standardize_batch has returned its map and the cycle has not ended
BatchReturned(d) ==
    \/ pc[d] = "group" /\ groups_left[d] = << >>
    \/ pc[d] \in {"insert", "status"}

\* the claimed documents whose source document was not found
Dropped(d) ==
    SeqRange(classified_products[d]) \ ProductIds(products_for_ai[d])

PendingAtStart ==
    Cardinality({ r \in Records : classified_db[r].standardization_status
                                      \in {"absent", "pending", "processing"} })

Min(a, b) == IF a <= b THEN a ELSE b

\* C2: two dispatchers never hold the same document, no dispatcher holds a
\* document twice, and when both have returned from their first claim the
\* two lists together hold min(pending, 2 * limit) documents, where pending
\* counts the documents that were claimable before the first claim
C2_DisjointClaims ==
    /\ \A d \in Dispatchers :
           \A i, j \in 1 .. Len(products[d]) :
               products[d][i] = products[d][j] => i = j
    /\ SeqRange(products["d1"]) \cap SeqRange(products["d2"]) = {}
    /\ (\A d \in Dispatchers : in_locals[d] /\ cycles[d] = 1) =>
           Len(classified_products["d1"]) + Len(classified_products["d2"])
               = Min(PendingAtStart, 2 * BatchSize)

\* both dispatchers have returned, each with at least one document, one of
\* them with fewer than its limit because the other took the rest
C2_Witness ==
    /\ \A d \in Dispatchers : in_locals[d] /\ cycles[d] = 1
    /\ Len(classified_products["d1"]) = BatchSize
    /\ Len(classified_products["d2"]) >= 1
    /\ Len(classified_products["d2"]) < BatchSize
    /\ Len(classified_products["d1"]) + Len(classified_products["d2"])
           = NumRecords

\* the cycle has returned normally after writing its status updates
CycleCompleted(d) == pc[d] = "done" /\ products_for_ai[d] # << >>

\* the ids of the products a request carries
RequestIds(entry) ==
    { entry.dynamic_content[i].product_id :
          i \in 1 .. Len(entry.dynamic_content) }

\* the dispatch requests of the cycle that satisfy the condition
FailedDispatches(d) ==
    { i \in 1 .. Len(oracle_log[d]) :
          /\ oracle_log[d][i].kind = "dispatch"
          /\ oracle_log[d][i].outcome = "failed" }

NoArrayDispatches(d) ==
    { i \in 1 .. Len(oracle_log[d]) :
          /\ oracle_log[d][i].kind = "dispatch"
          /\ oracle_log[d][i].outcome = "returned"
          /\ ~oracle_log[d][i].has_array }

\* the document is written 'failed' with an error text
WrittenFailed(r) ==
    /\ classified_db[r].standardization_status = "failed"
    /\ classified_db[r].standardization_error # None

\* C3, as stated: when a cycle has completed, every product of a partition
\* whose oracle request failed is written 'failed' with an error text
C3_FailedPartitionMarkedFailed ==
    \A d \in Dispatchers :
        CycleCompleted(d) =>
            \A i \in FailedDispatches(d) :
                \A r \in RequestIds(oracle_log[d][i]) : WrittenFailed(r)

\* C4, as stated: a raw text without a '[' or without a ']' parses to the
\* empty map, and when a cycle has completed every product of a partition
\* that was answered with such a text is written 'failed'
C4_NoArrayMarkedFailed ==
    /\ \A response \in OracleResponses(Records) :
           ~HasArray(response) => ParseResponse(response).results = << >>
    /\ \A d \in Dispatchers :
           CycleCompleted(d) =>
               \A i \in NoArrayDispatches(d) :
                   \A r \in RequestIds(oracle_log[d][i]) : WrittenFailed(r)

\* C5, as stated: when process_batch has raised, every document the cycle
\* claimed is written 'failed' with the text of the exception raised, which
\* is the exception that reached the handler
C5_ClaimedMarkedFailed ==
    \A d \in Dispatchers :
        pc[d] = "raised" =>
            /\ exc[d] \in {UpstreamError, DownstreamError, OracleError}
            /\ \A r \in SeqRange(products[d]) :
                   /\ classified_db[r].standardization_status = "failed"
                   /\ classified_db[r].standardization_error = exc[d]

\* the products of the batch that resolve to the empty group key
UnmappedProducts(d) ==
    { r \in ProductIds(products_for_ai[d]) :
          GetOkpdGroup(classified_db[r].okpd2_code, okpd2_standards[d])
              = << >> }

NoStandardsHead(d) ==
    /\ pc[d] = "group"
    /\ groups_left[d] # << >>
    /\ Head(groups_left[d]).group # UNMAPPED
    /\ Head(groups_left[d]).group \notin DOMAIN okpd2_standards[d]

\* what standardize_batch works on
BatchLocals(d) ==
    << pc[d], groups_left[d], all_results[d], oracle_log[d], exc[d],
       group_caches[d], last_cache_refresh[d] >>

C7_Step ==
    \A d \in Dispatchers :
        NoStandardsHead(d) /\ BatchLocals(d)' # BatchLocals(d) =>
            /\ \A r \in ProductIds(Head(groups_left[d]).products) :
                   /\ r \in DOMAIN all_results'[d]
                   /\ all_results'[d][r] = << >>
            /\ oracle_log'[d] = oracle_log[d]
            /\ group_caches'[d] = group_caches[d]
            /\ last_cache_refresh'[d] = last_cache_refresh[d]
            /\ exc'[d] = None
            /\ pc'[d] = "group"
            /\ groups_left'[d] = Tail(groups_left[d])

C7_NoTrace ==
    \A d \in Dispatchers :
        /\ DOMAIN group_caches[d] \subseteq DOMAIN okpd2_standards[d]
        /\ \A i \in 1 .. Len(oracle_log[d]) :
               oracle_log[d][i].group \in DOMAIN okpd2_standards[d]

NoStandardsProducts(d) ==
    { r \in ProductIds(products_for_ai[d]) :
          LET group == GetOkpdGroup(classified_db[r].okpd2_code,
                                    okpd2_standards[d])
          IN  group # << >> /\ group \notin DOMAIN okpd2_standards[d] }

NotInBatch == { r \in Records :
                  \A d \in Dispatchers :
                      r \notin ProductIds(products_for_ai[d]) }

\* the status of document r leaves 'processing'
LeavesProcessing(r) ==
    /\ classified_db[r].standardization_status = "processing"
    /\ classified_db'[r].standardization_status # "processing"

\* the stuck-item reset returns document r to 'pending'
ResetByCleanup(r) ==
    /\ r \in stuck
    /\ classified_db'[r].standardization_status = "pending"

\* the handler of the cycle that claimed document r marks it 'failed'
FailedByHandler(r) ==
    \E d \in Dispatchers :
        /\ pc[d] = "handler"
        /\ r \in SeqRange(classified_products[d])
        /\ classified_db'[r].standardization_status = "failed"

\* no request carries a product that is not a product of the batch
C8_NeverSent ==
    \A d \in Dispatchers :
        \A i \in 1 .. Len(oracle_log[d]) :
            RequestIds(oracle_log[d][i]) \cap Dropped(d) = {}

C8_StepAsStated ==
    \A r \in NotInBatch : LeavesProcessing(r) => ResetByCleanup(r)

C8_Step ==
    \A r \in NotInBatch :
        LeavesProcessing(r) => ResetByCleanup(r) \/ FailedByHandler(r)

\* C8, as stated: a claimed document that is not a product of the batch
\* (its source document was not found) is in no oracle request, and its
\* status leaves 'processing' only when the stuck-item reset returns it to
\* 'pending'
C8_DroppedStaysProcessing == []C8_NeverSent /\ [][C8_StepAsStated]_vars

\* C8, amended: such a document is in no oracle request, and its status
\* leaves 'processing' only when the stuck-item reset returns it to
\* 'pending' or when the cycle that claimed it ends in the handler, which
\* marks it 'failed'
C8_DroppedUntilResetOrHandler == []C8_NeverSent /\ [][C8_Step]_vars

\* a cycle dropped a document and completed, and the reset has returned
\* the document to 'pending'
C8_Witness ==
    /\ CycleCompleted("d1")
    /\ \E r \in Dropped("d1") :
           /\ r \in stuck
           /\ classified_db[r].standardization_status = "pending"

C9_Step ==
    \A d \in Dispatchers :
        \A g \in DOMAIN group_caches[d] :
            /\ g \in DOMAIN group_caches'[d]
            /\ group_caches'[d][g] = group_caches[d][g]

C9_RequestsCarryCache ==
    \A d \in Dispatchers :
        \A i \in 1 .. Len(oracle_log[d]) :
            /\ oracle_log[d][i].group \in DOMAIN group_caches[d]
            /\ oracle_log[d][i].cached_content
                   = group_caches[d][oracle_log[d][i].group]

\* C9: an entry of group_caches is never changed and never removed, and
\* the cached segment of every request for a group, warm-up or real, is
\* the text stored for the group
C9_CacheImmutable == []C9_RequestsCarryCache /\ [][C9_Step]_vars

\* a second cycle sends a request for a group whose text an earlier cycle
\* stored: record 2 was standardized by the first cycle
C9_Witness ==
    /\ cycles["d1"] = 2
    /\ classified_db[2].standardization_status = "standardized"
    /\ \E i \in 1 .. Len(oracle_log["d1"]) :
           /\ oracle_log["d1"][i].kind = "dispatch"
           /\ oracle_log["d1"][i].group
                  = GetOkpdGroup(classified_db[2].okpd2_code,
                                 okpd2_standards["d1"])

\* C10: a failed warm-up request is followed by the real request for the
\* same group in the same cycle: it is the last request only while the
\* real one is being sent, with no exception in flight
C10_WarmUpFailureSwallowed ==
    \A d \in Dispatchers :
        \A i \in 1 .. Len(oracle_log[d]) :
            (/\ oracle_log[d][i].kind = "warmup"
             /\ oracle_log[d][i].outcome = "failed") =>
                IF i = Len(oracle_log[d])
                THEN /\ pc[d] = "send"
                     /\ exc[d] = None
                     /\ Head(groups_left[d]).group = oracle_log[d][i].group
                ELSE /\ oracle_log[d][i + 1].kind = "dispatch"
                     /\ oracle_log[d][i + 1].group = oracle_log[d][i].group

\* a warm-up request failed and the real request for the group returned
C10_Witness ==
    \E i \in 1 .. Len(oracle_log["d1"]) :
        /\ oracle_log["d1"][i].kind = "warmup"
        /\ oracle_log["d1"][i].outcome = "failed"
        /\ i < Len(oracle_log["d1"])
        /\ oracle_log["d1"][i + 1].kind = "dispatch"
        /\ oracle_log["d1"][i + 1].outcome = "returned"

\* the group of the partition the loop is at
HeadGroup(d) == Head(groups_left[d]).group

\* the step appends a warm-up request to the dispatcher's log
WarmUpAppended(d) ==
    /\ Len(oracle_log'[d]) = Len(oracle_log[d]) + 1
    /\ oracle_log'[d][Len(oracle_log'[d])].kind = "warmup"

\* _refresh_cache_if_needed reads the clock and decides
C11_Decision ==
    \A d \in Dispatchers :
        pc[d] = "group" /\ pc'[d] \in {"refresh", "send"} =>
            /\ (pc'[d] = "refresh")
                   <=> (now' - LastRefresh(d, HeadGroup(d)) > 240)
            /\ pc'[d] = "refresh" => current_time'[d] = now'
            /\ last_cache_refresh'[d] = last_cache_refresh[d]
            /\ oracle_log'[d] = oracle_log[d]

\* the warm-up request carries the cached segment of the group alone
C11_CallCarriesCache ==
    \A d \in Dispatchers :
        pc[d] = "refresh" /\ pc'[d] # "refresh" =>
            /\ WarmUpAppended(d)
            /\ LET entry == oracle_log'[d][Len(oracle_log'[d])]
               IN  /\ entry.group = HeadGroup(d)
                   /\ entry.cached_content = group_caches[d][HeadGroup(d)]
                   /\ entry.dynamic_content = << >>

\* no warm-up request and no change of last_cache_refresh without a stale
\* entry
C11_OnlyWhenStale ==
    \A d \in Dispatchers :
        /\ WarmUpAppended(d) => pc[d] = "refresh"
        /\ last_cache_refresh'[d] # last_cache_refresh[d] => pc[d] = "refresh"

\* the warm-up request ends and last_cache_refresh is set to the time read
C11_UpdatedAlways ==
    \A d \in Dispatchers :
        pc[d] = "refresh" /\ pc'[d] # "refresh" =>
            last_cache_refresh'[d]
                = Put(last_cache_refresh[d], HeadGroup(d), now)

\* the same when the request returned; nothing changes when it failed
C11_UpdatedOnReturn ==
    \A d \in Dispatchers :
        pc[d] = "refresh" /\ pc'[d] # "refresh" =>
            IF oracle_log'[d][Len(oracle_log'[d])].outcome = "returned"
            THEN last_cache_refresh'[d]
                     = Put(last_cache_refresh[d], HeadGroup(d), now)
            ELSE last_cache_refresh'[d] = last_cache_refresh[d]

\* C11, as stated: the warm-up request, carrying the group's cached
\* segment, is sent if and only if now - lastRefreshedAt > 240; whenever it
\* is sent lastRefreshedAt becomes now; otherwise no request is sent and
\* lastRefreshedAt is unchanged
C11_RefreshIffStale ==
    [][C11_Decision /\ C11_CallCarriesCache /\ C11_OnlyWhenStale
          /\ C11_UpdatedAlways]_vars

\* C11, amended: the warm-up request, carrying the group's cached segment,
\* is sent if and only if now - lastRefreshedAt > 240; lastRefreshedAt
\* becomes now when the request returns and is unchanged when it fails;
\* otherwise no request is sent and lastRefreshedAt is unchanged
C11_RefreshIffStaleUpdatedOnReturn ==
    [][C11_Decision /\ C11_CallCarriesCache /\ C11_OnlyWhenStale
          /\ C11_UpdatedOnReturn]_vars

\* the entry was refreshed exactly 240 seconds ago: no warm-up request is
\* sent and the real request is
C11_Witness ==
    /\ pc["d1"] = "send"
    /\ oracle_log["d1"] = << >>
    /\ now - LastRefresh("d1", HeadGroup("d1")) = 240

GroupKeyOf(d, product) ==
    GetOkpdGroup(product.okpd2_code, okpd2_standards[d])

\* the products of the batch that resolve to group, in the batch's order,
\* each with the attribute list of its record
ProductsOfGroup(d, group) ==
    LET InGroup(product) == GroupKeyOf(d, product) = group
        partition == SelectSeq(products_for_ai[d], InGroup)
    IN  [i \in 1 .. Len(partition) |->
            [product_id |-> partition[i].product_id,
             okpd2_code |-> classified_db[partition[i].product_id].okpd2_code,
             attributes |-> AttributesOf(partition[i].product_id)]]

\* the mapped groups of the batch that have catalog rules
RuledGroups(d) ==
    { GroupKeyOf(d, products_for_ai[d][i]) : i \in 1 .. Len(products_for_ai[d]) }
        \cap DOMAIN okpd2_standards[d]

\* the positions of the log's requests of a kind for a group
RequestsFor(d, kind, group) ==
    { i \in 1 .. Len(oracle_log[d]) :
          oracle_log[d][i].kind = kind /\ oracle_log[d][i].group = group }

\* when standardize_batch has returned, each such group has exactly one
\* dispatch request, after any warm-up request for it, and every dispatch
\* request lists exactly the products of its group with all attributes
C13_OncePerPartition ==
    \A d \in Dispatchers :
        /\ BatchReturned(d) =>
               \A group \in RuledGroups(d) :
                   Cardinality(RequestsFor(d, "dispatch", group)) = 1
        /\ \A i \in 1 .. Len(oracle_log[d]) :
               oracle_log[d][i].kind = "dispatch" =>
                   /\ oracle_log[d][i].dynamic_content
                          = ProductsOfGroup(d, oracle_log[d][i].group)
                   /\ oracle_log[d][i].dynamic_content # << >>
                   /\ \A j \in RequestsFor(d, "warmup", oracle_log[d][i].group) :
                          j < i

\* a dispatch request is sent only after the refresh check of its group:
\* from the state the check, or the warm-up request it sent, leads to
C13_AfterRefreshCheck ==
    \A d \in Dispatchers :
        /\ (/\ Len(oracle_log'[d]) = Len(oracle_log[d]) + 1
            /\ oracle_log'[d][Len(oracle_log'[d])].kind = "dispatch") =>
               /\ pc[d] = "send"
               /\ oracle_log'[d][Len(oracle_log'[d])].group = HeadGroup(d)
        /\ pc[d] # "send" /\ pc'[d] = "send" =>
               /\ pc[d] \in {"group", "refresh"}
               /\ HeadGroup(d)' = HeadGroup(d)
               /\ pc[d] = "group" =>
                      ~(now' - LastRefresh(d, HeadGroup(d)) > 240)

\* C13: in one cycle every mapped partition whose group has catalog rules
\* gets exactly one dispatch request, sent after the refresh check for the
\* group, whose dynamic payload lists every product of the partition, and
\* no other, with its complete attribute list
C13_DispatchOncePerPartition ==
    []C13_OncePerPartition /\ [][C13_AfterRefreshCheck]_vars

\* standardize_batch has returned after the request of a partition of two
\* products
C13_Witness ==
    /\ BatchReturned("d1")
    /\ \E i \in 1 .. Len(oracle_log["d1"]) :
           /\ oracle_log["d1"][i].kind = "dispatch"
           /\ Len(oracle_log["d1"][i].dynamic_content) = 2

\* the groups of the partitions the loop has not finished
GroupsLeft(d) ==
    { groups_left[d][i].group : i \in 1 .. Len(groups_left[d]) }

\* the step appends a dispatch request to the dispatcher's log
DispatchAppended(d) ==
    /\ Len(oracle_log'[d]) = Len(oracle_log[d]) + 1
    /\ oracle_log'[d][Len(oracle_log'[d])].kind = "dispatch"

\* a request of a partition is being awaited
CallInFlight(d) == pc[d] \in {"refresh", "send"}

\* a request starts only at the head of the loop; the loop takes up the
\* next partition, or returns, only when the real request of every earlier
\* ruled partition has ended; while a request is awaited the only step is
\* its end, and the loop leaves the partition only at the end of the real
\* request
C14_Step ==
    \A d \in Dispatchers :
        /\ ~CallInFlight(d) /\ CallInFlight(d)' => pc[d] = "group"
        /\ (/\ pc[d] = "group"
            /\ pc'[d] # pc[d] \/ groups_left'[d] # groups_left[d]) =>
               \A group \in RuledGroups(d) \ GroupsLeft(d) :
                   \E i \in RequestsFor(d, "dispatch", group) :
                       oracle_log[d][i].outcome \in {"returned", "failed"}
        /\ pc[d] = "refresh" /\ pc'[d] # "refresh" =>
               /\ WarmUpAppended(d)
               /\ pc'[d] = "send"
               /\ groups_left'[d] = groups_left[d]
        /\ pc[d] = "send" /\ pc'[d] # "send" =>
               /\ DispatchAppended(d)
               /\ pc'[d] = "group"
               /\ groups_left'[d] = Tail(groups_left[d])
        /\ CallInFlight(d) /\ pc'[d] = pc[d] =>
               /\ oracle_log'[d] = oracle_log[d]
               /\ groups_left'[d] = groups_left[d]

\* C14: within one cycle the oracle calls of different partitions never
\* overlap: the warm-up and the real request of a partition have returned
\* or failed before a request of the next partition starts
C14_NoOverlap == [][C14_Step]_vars

\* a request of a second partition is awaited and the real request of the
\* first one has ended
C14_Witness ==
    /\ CallInFlight("d1")
    /\ \E i \in 1 .. Len(oracle_log["d1"]) :
           /\ oracle_log["d1"][i].kind = "dispatch"
           /\ oracle_log["d1"][i].group # HeadGroup("d1")

\* a name in lower case
LowerCased(name) ==
    [i \in 1 .. Len(name) |->
        IF name[i] \in 65 .. 90 THEN name[i] + 32 ELSE name[i]]

\* string a occurs in string b
OccursIn(a, b) ==
    \E k \in 1 .. Len(b) + 1 :
        /\ k + Len(a) - 1 <= Len(b)
        /\ \A i \in 1 .. Len(a) : b[k + i - 1] = a[i]

\* the original name equals, contains or is contained in the standard name,
\* both in lower case
Covers(standard_name, attr_name) ==
    \/ LowerCased(attr_name) = LowerCased(standard_name)
    \/ OccursIn(LowerCased(attr_name), LowerCased(standard_name))
    \/ OccursIn(LowerCased(standard_name), LowerCased(attr_name))

\* C15: the unstandardized attributes of every product with an outcome are
\* exactly the original attributes whose name, in lower case, neither
\* equals, contains nor is contained in the lower-cased standard name of
\* any standardized attribute of the product; an original attribute whose
\* name is a standard name of the product is not among them
C15_UnstandardizedExact ==
    \A d \in Dispatchers :
        \A i \in 1 .. Len(standardized_products[d]) :
            LET sp == standardized_products[d][i]
                standard_names ==
                    { sp.standardized_attributes[k].standard_name :
                          k \in 1 .. Len(sp.standardized_attributes) }
            IN  /\ sp.standardized_attributes
                       = all_results[d][sp.classified_mongo_id]
                /\ SeqRange(sp.unstandardized_attributes)
                       = { a \in SeqRange(sp.original_attributes) :
                               \A name \in standard_names :
                                   ~Covers(name, a.attr_name) }
                /\ \A a \in SeqRange(sp.unstandardized_attributes) :
                       a.attr_name \notin standard_names

\* an outcome with an original attribute that equals a standard name, one
\* that is contained in a standard name without being equal to it, and the
\* second left unstandardized by the cut-down of its standard name
C15_Witness ==
    \E i \in 1 .. Len(standardized_products["d1"]) :
        LET sp == standardized_products["d1"][i]
        IN  /\ Len(sp.original_attributes) = 2
            /\ Len(sp.standardized_attributes) = 2
            /\ sp.original_attributes[1].attr_name = Str["b"]
            /\ sp.original_attributes[2].attr_name = Str["cd"]
            /\ sp.standardized_attributes[1].standard_name = Str["ABC"]
            /\ sp.standardized_attributes[2].standard_name = Str["b"]
            /\ Len(sp.unstandardized_attributes) = 1

(***************************************************************************)
(* _parse_response on any raw text                                         *)
(***************************************************************************)
\* the longest raw text, in tokens
MaxText == 5

\* a list of standardized attributes whose second one fails conversion
MixedAttrs ==
    OneAttr
    \o << [standard_name |-> Str["b"], standard_value |-> "s2",
           characteristic_type |-> "t2", convertible |-> FALSE],
          [standard_name |-> Str["ABC"], standard_value |-> "s3",
           characteristic_type |-> "t3", convertible |-> TRUE] >>

\* the tokens of the texts: an object of product 2, an object without
\* "product_id" and an object of product 3 whose attributes are null
Tokens ==
    {Token("["), Token("]"), Token(","), Token("prose"), Token("number"),
     Object(2, MixedAttrs), Object(NoId, OneAttr), ObjectNullAttributes(3)}

Texts == SeqsUpTo(Tokens, MaxText)

\* the oracle answers with any text
DispatchText(d) == DispatchReturnAs(d, Texts, TRUE)

\* one document of the group 26.20 among documents without a code
CollectionParse ==
    [r \in Records |->
        IF r = 2 THEN NewDoc(r, Str["26.20.1"], "tender")
        ELSE NewDoc(r, Str[""], "tender")]

InitParse ==
    /\ classified_db = CollectionParse
    /\ InitLocals

StepParse(d) ==
    \/ StartCycle(d)
    \/ ClaimOne(d)
    \/ ClaimReturn(d)
    \/ Prepare(d)
    \/ PartitionUnmapped(d)
    \/ PartitionStartNow(d)
    \/ WarmUpOk(d)
    \/ DispatchText(d)

NextParse == StepParse("d1")

SpecParse == InitParse /\ [][NextParse]_vars

(***************************************************************************)
(* C16                                                                     *)
(***************************************************************************)
\* the stored documents of a key, with their numbers of copies
StoredFor(db, key) == { doc \in BagToSet(db) : KeyOf(doc) = key }

CopiesFor(db, key) ==
    BagCardinality([doc \in StoredFor(db, key) |-> db[doc]])

\* the products of a call of bulk_insert_products that have a key
WritesFor(d, key) ==
    { product \in SeqRange(standardized_products[d]) : KeyOf(product) = key }

\* a call of bulk_insert_products by d returns
BulkInsertReturns(d) == pc[d] = "insert" /\ pc'[d] = "status"

C16_OneRecordPerKey ==
    \A doc \in BagToSet(standardized_db) :
        CopiesFor(standardized_db, KeyOf(doc)) = 1

C16_Step ==
    \A d \in Dispatchers :
        BulkInsertReturns(d) =>
            \A key \in StandardizedKeys(d) :
                /\ CopiesFor(standardized_db', key) = 1
                /\ StoredFor(standardized_db', key) \subseteq WritesFor(d, key)

\* C16: the downstream store never holds two records of one key
\* (old_mongo_id, collection_name), and when bulk_insert_products returns
\* after writing its products, the one record of each of their keys is a
\* product of this call, whatever the store held for the key before
C16_UpsertIdempotent == []C16_OneRecordPerKey /\ [][C16_Step]_vars

\* the second cycle has upserted the product of document 3, whose source
\* document is that of document 1, standardized and stored by the first
\* cycle
C16_Witness ==
    /\ cycles["d1"] = 2
    /\ pc["d1"] = "status"
    /\ classified_db[1].standardization_status = "standardized"
    /\ classified_db[1].source_id = classified_db[3].source_id
    /\ classified_db[1].source_collection = classified_db[3].source_collection
    /\ 1 \notin SeqRange(products["d1"])
    /\ \E product \in SeqRange(standardized_products["d1"]) :
           /\ product.classified_mongo_id = 3
           /\ StoredFor(standardized_db, KeyOf(product)) = {product}

(***************************************************************************)
(* C17, C18                                                                *)
(***************************************************************************)
\* the code without its separators
Stripped(okpd2_code) == SelectSeq(okpd2_code, LAMBDA c : c # Dot)

\* standardize_batch has just grouped the products of d
Grouped(d) == pc[d] = "prepare" /\ pc'[d] = "group"

\* the key of the partition standardize_batch put a product in
PartitionOf(partitions, product) ==
    LET i == CHOOSE i \in 1 .. Len(partitions) :
                 product \in SeqRange(partitions[i].products)
    IN  partitions[i].group

C17_Step ==
    \A d \in Dispatchers :
        Grouped(d) =>
            \A product \in SeqRange(products_for_ai'[d]) :
                LET clean == Stripped(product.okpd2_code)
                IN  Len(clean) >= 4 =>
                        PartitionOf(groups_left'[d], product)
                            = << clean[1], clean[2], Dot, clean[3], clean[4] >>

\* C17: whenever standardize_batch groups its products, in a first cycle
\* or after cycles that resolved codes, rendered cache entries and set
\* refresh times, a code whose stripped length is at least 4 is resolved
\* to its first two characters, a dot and its next two characters: to a
\* value of the code alone
C17_LongCodeGroup == [][C17_Step]_vars

\* the second cycle has resolved the code of document 3 to 17.12, after
\* the first cycle resolved the same code for document 1 and set the cache
\* entry and the refresh time of the group
C17_Witness ==
    /\ cycles["d1"] = 2
    /\ pc["d1"] = "group"
    /\ classified_db[1].okpd2_code = Str["1712"]
    /\ classified_db[1].standardization_status = "standardized"
    /\ Str["17.12"] \in DOMAIN group_caches["d1"]
    /\ Str["17.12"] \in DOMAIN last_cache_refresh["d1"]
    /\ groups_left["d1"] # << >>
    /\ Head(groups_left["d1"]).group = Str["17.12"]
    /\ \E product \in SeqRange(Head(groups_left["d1"]).products) :
           /\ product.product_id = 3
           /\ product.okpd2_code = Str["1712"]

\* a is b or comes before b in the order of strings
LexLeq(a, b) ==
    \/ a = b
    \/ \E i \in 1 .. Len(b) :
           /\ \A j \in 1 .. i - 1 : j <= Len(a) /\ a[j] = b[j]
           /\ i > Len(a) \/ a[i] < b[i]

\* the keys that are the two characters and a dot, followed by anything
KeysOfPrefix(keys, clean) ==
    { key \in keys : /\ Len(key) >= 3
                      /\ key[1] = clean[1]
                      /\ key[2] = clean[2]
                      /\ key[3] = Dot }

C18_Step ==
    \A d \in Dispatchers :
        Grouped(d) =>
            \A product \in SeqRange(products_for_ai'[d]) :
                LET clean == Stripped(product.okpd2_code)
                    keys == KeysOfPrefix(DOMAIN okpd2_standards[d], clean)
                    group == PartitionOf(groups_left'[d], product)
                IN  /\ Len(clean) \in {0, 1, 3} => group = UNMAPPED
                    /\ Len(clean) = 2 /\ keys = {} => group = UNMAPPED
                    /\ Len(clean) = 2 /\ keys # {} =>
                           /\ group \in keys
                           /\ \A key \in keys : LexLeq(group, key)

\* C18: a code of stripped length 2 is resolved to the smallest, in the
\* order of strings, of the catalog keys that start with the stripped code
\* and a dot, and to the empty string (the UNMAPPED partition of
\* standardize_batch) when there is none; a code of stripped length 0, 1
\* or 3 is resolved to the empty string
C18_ShortCodeGroup == [][C18_Step]_vars

\* the code "2.6" has been resolved to 26.1 in a catalog that also has
\* 26.20, 26.30 and 261.0, in the second cycle
C18_Witness ==
    /\ cycles["d1"] = 2
    /\ pc["d1"] = "group"
    /\ {Str["26.1"], Str["26.20"], Str["26.30"], Str["261.0"]}
           \subseteq DOMAIN okpd2_standards["d1"]
    /\ groups_left["d1"] # << >>
    /\ Head(groups_left["d1"]).group = Str["26.1"]
    /\ \E product \in SeqRange(Head(groups_left["d1"]).products) :
           product.okpd2_code = Str["2.6"]

(***************************************************************************)
(* C19, C20                                                                *)
(***************************************************************************)
\* the requests of d that returned a text, kept with the text in the log
ReturnedTexts(d) ==
    { i \in 1 .. Len(oracle_log[d]) :
          /\ oracle_log[d][i].kind = "dispatch"
          /\ oracle_log[d][i].outcome = "returned" }

Positions(response, token) ==
    { i \in 1 .. Len(response) : response[i] = token }

\* the text from its first '[' to its last ']', empty when the last ']'
\* comes before the first '['
Span(response) ==
    LET first == CHOOSE i \in Positions(response, Token("[")) :
                     \A j \in Positions(response, Token("[")) : i <= j
        last == CHOOSE i \in Positions(response, Token("]")) :
                    \A j \in Positions(response, Token("]")) : i >= j
    IN  [k \in 1 .. last - first + 1 |-> response[first + k - 1]]

\* the grammar of a JSON array over the tokens: brackets around nothing or
\* around values separated by commas, a value being an object, a number or
\* an array
RECURSIVE IsArrayText(_)
RECURSIVE IsValueText(_)
RECURSIVE IsListText(_)
IsArrayText(text) ==
    /\ Len(text) >= 2
    /\ text[1] = Token("[")
    /\ text[Len(text)] = Token("]")
    /\ Len(text) = 2 \/ IsListText(SubSeq(text, 2, Len(text) - 1))

IsValueText(text) ==
    \/ Len(text) = 1 /\ text[1].kind \in {"object", "number"}
    \/ IsArrayText(text)

IsListText(text) ==
    \/ IsValueText(text)
    \/ \E k \in 2 .. Len(text) - 1 :
           /\ text[k] = Token(",")
           /\ IsValueText(SubSeq(text, 1, k - 1))
           /\ IsListText(SubSeq(text, k + 1, Len(text)))

\* the text has a '[' and a ']' and the span between them is an array
WellFormedArray(response) ==
    /\ Positions(response, Token("[")) # {}
    /\ Positions(response, Token("]")) # {}
    /\ IsArrayText(Span(response))

\* C19: whatever text the oracle returns, _parse_response returns a map
\* and no exception leaves it; the map is empty when the text has no '[',
\* no ']', or the span from its first '[' to its last ']' is not a
\* well-formed array
C19_ParseNeverRaises ==
    \A d \in Dispatchers :
        \A i \in ReturnedTexts(d) :
            LET entry == oracle_log[d][i]
            IN  /\ ~entry.parsed.raised
                /\ DOMAIN entry.parsed.results \subseteq Records
                /\ ~WellFormedArray(entry.response) =>
                       DOMAIN entry.parsed.results = {}

\* a text with a '[' before a ']' and the object of product 2 between
\* them, whose span is not an array, has been parsed to the empty map and
\* standardize_batch has gone on
C19_Witness ==
    /\ pc["d1"] = "group"
    /\ \E i \in ReturnedTexts("d1") :
           LET entry == oracle_log["d1"][i]
           IN  /\ Positions(entry.response, Token("[")) # {}
               /\ Positions(entry.response, Token("]")) # {}
               /\ Len(Span(entry.response)) >= 3
               /\ Object(2, MixedAttrs) \in SeqRange(Span(entry.response))
               /\ ~IsArrayText(Span(entry.response))
               /\ DOMAIN entry.parsed.results = {}
               /\ ~entry.parsed.raised

\* the elements of the array of a well-formed text
ElementsOf(response) == JsonLoads(Span(response)).value

\* the element has a "product_id"
HasProductId(element) ==
    element.kind = "object" /\ element.product_id # NoId

\* the attributes of an element that do not fail conversion, in order
Converted(attrs) ==
    LET kept == SelectSeq(attrs, LAMBDA attr : attr.convertible)
    IN  [k \in 1 .. Len(kept) |->
            [standard_name |-> kept[k].standard_name,
             standard_value |-> kept[k].standard_value,
             characteristic_type |-> kept[k].characteristic_type]]

\* C20, as stated: for a well-formed array, the returned map has no entry
\* but those of the elements with a product_id, and has an entry for every
\* element with a product_id and a list of attributes, holding the
\* attributes of the element that do not fail conversion
C20_ElementsSkippedAlone ==
    \A d \in Dispatchers :
        \A i \in ReturnedTexts(d) :
            LET entry == oracle_log[d][i]
                results == entry.parsed.results
            IN  WellFormedArray(entry.response) =>
                    LET elements == ElementsOf(entry.response)
                    IN  /\ DOMAIN results \subseteq
                               { elements[k].product_id :
                                     k \in { k \in 1 .. Len(elements) :
                                                HasProductId(elements[k]) } }
                        /\ \A k \in 1 .. Len(elements) :
                               /\ HasProductId(elements[k])
                               /\ ~elements[k].null_attributes
                               => /\ elements[k].product_id \in DOMAIN results
                                  /\ results[elements[k].product_id]
                                         = Converted(elements[k]
                                               .standardized_attributes)

(***************************************************************************)
(* The continuous runner                                                   *)
(***************************************************************************)
RunnerLog(d) == runner[d].log

\* C21: whenever the polled pending count is zero the runner starts no
\* dispatch cycle: the next thing it does is to sleep 30 seconds and the
\* next after that to poll again; and no poll is followed by another poll
\* without a sleep in between
C21_ZeroPollSleeps ==
    \A d \in Dispatchers :
        \A i \in 1 .. Len(RunnerLog(d)) :
            RunnerLog(d)[i].event = "poll" =>
                /\ i < Len(RunnerLog(d)) =>
                       RunnerLog(d)[i + 1].event # "poll"
                /\ RunnerLog(d)[i].value = 0 =>
                       /\ i = Len(RunnerLog(d)) => pc[d] = "empty"
                       /\ i < Len(RunnerLog(d)) =>
                              RunnerLog(d)[i + 1]
                                  = [event |-> "sleep", value |-> 30]
                       /\ i + 1 < Len(RunnerLog(d)) =>
                              RunnerLog(d)[i + 2].event = "poll"

\* the runner polled a count of zero, slept 30 seconds and polled again
C21_Witness ==
    \E i \in 1 .. Len(RunnerLog("d1")) - 2 :
        /\ RunnerLog("d1")[i] = [event |-> "poll", value |-> 0]
        /\ RunnerLog("d1")[i + 1] = [event |-> "sleep", value |-> 30]
        /\ RunnerLog("d1")[i + 2].event = "poll"

\* the runner's calls of process_batch, as positions of its log
Cycles(d) ==
    { i \in 1 .. Len(RunnerLog(d)) : RunnerLog(d)[i].event = "process_batch" }

\* between any two calls of process_batch the runner has slept
C22_SleepBetweenCycles ==
    \A d \in Dispatchers :
        \A i, j \in Cycles(d) :
            i < j => \E k \in i + 1 .. j - 1 :
                         /\ RunnerLog(d)[k].event = "sleep"
                         /\ RunnerLog(d)[k].value > 0

\* the runner leaves a cycle that returned or raised only into a sleep,
\* which after a result with total > 0 is the pacing delay
C22_Step ==
    \A d \in Dispatchers :
        pc[d] \in {"done", "raised"} /\ pc'[d] # pc[d] =>
            \E seconds \in 1 .. 60 :
                /\ RunnerLog(d)' = Append(RunnerLog(d),
                                      [event |-> "sleep", value |-> seconds])
                /\ pc[d] = "done" /\ result[d].total > 0 =>
                       seconds = RATE_LIMIT_DELAY

\* C22: after every dispatch cycle that returned a result with total > 0
\* the runner sleeps the pacing delay before it starts the next cycle, and
\* no two dispatch cycles of one runner run without a sleep in between,
\* also after an empty result or a cycle that raised
C22_PacedCycles == []C22_SleepBetweenCycles /\ [][C22_Step]_vars

\* two cycles of the runner, the first of which returned products, with
\* the pacing delay between them
C22_Witness ==
    \E i \in 1 .. Len(RunnerLog("d1")) - 3 :
        /\ RunnerLog("d1")[i].event = "process_batch"
        /\ RunnerLog("d1")[i + 1]
               = [event |-> "sleep", value |-> RATE_LIMIT_DELAY]
        /\ RunnerLog("d1")[i + 2].event = "poll"
        /\ RunnerLog("d1")[i + 3].event = "process_batch"

\* the runner is never left at a raised cycle: its sleep is enabled there,
\* and takes it back to the top of its loop
C23_BacksOff ==
    \A d \in Dispatchers :
        pc[d] = "raised" /\ RunnerLog(d) # << >> => ENABLED RunnerSleep(d)

\* a raised cycle is left only by a sleep of 60 seconds, after which the
\* runner is at the top of its loop
C23_Step ==
    \A d \in Dispatchers :
        pc[d] = "raised" /\ pc'[d] # "raised" =>
            /\ pc'[d] = "idle"
            /\ RunnerLog(d)' = Append(RunnerLog(d),
                                  [event |-> "sleep", value |-> 60])

\* C23: when a dispatch cycle raises to the runner, the runner does not
\* terminate: it sleeps 60 seconds and is back at the top of its loop,
\* where it polls and dispatches again
C23_RunnerSurvives == []C23_BacksOff /\ [][C23_Step]_vars

\* after a cycle of the runner raised, a later cycle of the runner has
\* standardized a product
C23_Witness ==
    /\ \E i \in Cycles("d1") :
           /\ i < Len(RunnerLog("d1"))
           /\ RunnerLog("d1")[i + 1] = [event |-> "sleep", value |-> 60]
    /\ cycles["d1"] = 2
    /\ pc["d1"] = "done"
    /\ result["d1"].standardized > 0

\* the variables of the dispatchers: of the runners and of their cycles
dispatcherVars ==
    << cacheVars, pc, cycles, runner, products, classified_products,
       in_locals, batchVars, exc, result >>

\* C24: the runner and the dispatch cycle never move a document from
\* 'processing' back to 'pending': a step that does is no step of a runner
\* or of a cycle (it changes no variable of a dispatcher), and the document
\* was claimed more than thirty minutes before, as the cleanup-stuck
\* operation requires
C24_Step ==
    \A r \in Records :
        /\ classified_db[r].standardization_status = "processing"
        /\ classified_db'[r].standardization_status = "pending"
        => /\ UNCHANGED dispatcherVars
           /\ r \in stuck

C24_OnlyCleanupResets == [][C24_Step]_vars

\* the runner found nothing pending and goes to sleep while a document it
\* claimed more than thirty minutes ago is still in 'processing'
C24_Witness ==
    /\ pc["d1"] = "empty"
    /\ \E r \in Records :
           /\ r \in stuck
           /\ r \in SeqRange(classified_products["d1"])
           /\ classified_db[r].standardization_status = "processing"

(***************************************************************************)
(* The empty catalog                                                       *)
(***************************************************************************)
\* the dispatcher runs with the catalog _load_standards returns when the
\* load fails
EmptyCatalog(d) == DOMAIN okpd2_standards[d] = {}

StoredKeys(db) == { KeyOf(doc) : doc \in BagToSet(db) }

\* no step deletes a downstream document; the steps after the upsert (the
\* status update, whether it returns or raises, and the handler) leave the
\* downstream store as it is; the step in which the upsert raises leaves
\* the upstream store as it is; and no step puts a document back to the
\* status it had before it was claimed
C26_Step ==
    /\ StoredKeys(standardized_db) \subseteq StoredKeys(standardized_db')
    /\ \A d \in Dispatchers :
           /\ pc[d] \in {"status", "handler"} /\ pc'[d] # pc[d] =>
                  standardized_db' = standardized_db
           /\ pc[d] = "insert" /\ pc'[d] = "handler" =>
                  classified_db' = classified_db
    /\ \A r \in Records :
           classified_db[r].standardization_status
                   \notin {"absent", "pending"} =>
               classified_db'[r].standardization_status
                   \notin {"absent", "pending"}

\* C26: the downstream upsert and the upstream status update of a cycle
\* are independent writes: when the status update raises after the upsert,
\* the upserted documents stay stored, and when the upsert raises, the
\* cycle deletes nothing downstream and reverts nothing upstream
C26_NoRollback == [][C26_Step]_vars

\* the status update raised after the upsert had written every product of
\* the cycle, the handler has run, and the documents are still stored
C26_Witness ==
    /\ pc["d1"] = "raised"
    /\ exc["d1"] = UpstreamError
    /\ StandardizedKeys("d1") # {}
    /\ StandardizedKeys("d1") \subseteq StoredKeys(standardized_db)
    /\ \A r \in SeqRange(classified_products["d1"]) :
           classified_db[r].standardization_status = "failed"

(***************************************************************************)
(* The grouped runner                                                      *)
(***************************************************************************)
\* two calls of process_batch by the runner with no call between them
Consecutive(d, i, j) ==
    /\ i \in Cycles(d)
    /\ j \in Cycles(d)
    /\ i < j
    /\ \A k \in Cycles(d) : ~ (i < k /\ k < j)

\* the group of the code the i-th event of the log, a call, was made for
GroupAt(d, i) == GroupedKey(RunnerLog(d)[i].value)

\* the call at position i of the log returned a result with total == 0
ClaimedNothing(d, i) ==
    /\ i < Len(RunnerLog(d))
    /\ RunnerLog(d)[i + 1].event = "result"
    /\ RunnerLog(d)[i + 1].value = 0

\* the call at position i of the log raised: the runner slept 60 seconds
\* and aggregated again
RaisedAt(d, i) ==
    /\ i + 1 < Len(RunnerLog(d))
    /\ RunnerLog(d)[i + 1].event = "sleep"
    /\ RunnerLog(d)[i + 1].value = 60
    /\ RunnerLog(d)[i + 2].event = "poll"

\* C27, as stated: in the grouped mode the runner runs cycles for the
\* current group until a cycle for it claims nothing (total == 0), and
\* claims no product of the next group before that
C27_NextGroupAfterEmptyCycle ==
    \A d \in Dispatchers :
        \A i, j \in 1 .. Len(RunnerLog(d)) :
            Consecutive(d, i, j) /\ GroupAt(d, i) # GroupAt(d, j) =>
                ClaimedNothing(d, i)

C27_Log ==
    \A d \in Dispatchers :
        \A i, j \in 1 .. Len(RunnerLog(d)) :
            Consecutive(d, i, j) /\ GroupAt(d, i) # GroupAt(d, j) =>
                ClaimedNothing(d, i) \/ RaisedAt(d, i)

\* the documents of a group before the given one that the runner counts
\* as pending and process_batch can claim
PendingBefore(d, group) ==
    { r \in Records :
          /\ CountFilter(classified_db[r])
          /\ ClaimFilter(classified_db[r])
          /\ Len(classified_db[r].okpd2_code) >= 4
          /\ GroupedKey(classified_db[r].okpd2_code)
                 \in DOMAIN okpd2_standards[d]
          /\ StrLess(GroupedKey(classified_db[r].okpd2_code), group) }

C27_Step ==
    \A d \in Dispatchers :
        pc[d] = "codes" /\ pc'[d] = "claim" =>
            PendingBefore(d, GroupedKey(Head(runner[d].codes))) = {}

\* the runner is in its inner loop for the code
InnerLoop(d, code) ==
    /\ runner[d].codes # << >>
    /\ Head(runner[d].codes) = code

C27_Terminates ==
    \A code \in {Str["2620"], Str["262011"], Str["2630"]} :
        InnerLoop("d1", code) ~> ~ InnerLoop("d1", code)

\* C27, amended: in the grouped mode the runner goes from a cycle for one
\* group to a cycle for another only after a cycle for the first claimed
\* nothing or raised (it then backs off and aggregates again); it starts
\* no cycle for a group while a pending document of an earlier group can
\* still be claimed; and, with every enabled step taken in the end, it
\* leaves the inner loop of every code
C27_GroupExhausted == []C27_Log /\ [][C27_Step]_vars /\ C27_Terminates

\* the cycles for the first group claimed its documents and then nothing,
\* and the runner has called process_batch for the next group
C27_Witness ==
    \E i, j, k \in 1 .. Len(RunnerLog("d1")) :
        /\ i < j /\ j < k
        /\ RunnerLog("d1")[i].event = "result"
        /\ RunnerLog("d1")[i].value > 0
        /\ ClaimedNothing("d1", j - 1)
        /\ RunnerLog("d1")[k].event = "process_batch"
        /\ GroupAt("d1", j - 1) = Str["26.20"]
        /\ GroupAt("d1", k) = Str["26.30"]

(***************************************************************************)
(* A failure in one partition and the other partitions                     *)
(***************************************************************************)
\* the real requests of the dispatcher's cycle, as positions of the log
Dispatches(d) ==
    { i \in 1 .. Len(oracle_log[d]) : oracle_log[d][i].kind = "dispatch" }

\* the request failed in the transport, or its response failed to parse:
\* the text has no well-formed array, or an element of the array is not an
\* object with a list of attributes
FailedPartition(entry) ==
    \/ entry.outcome = "failed"
    \/ ~ WellFormedArray(entry.response)
    \/ \E k \in 1 .. Len(entry.response) :
           \/ entry.response[k].kind \in {"number", "array"}
           \/ entry.response[k].null_attributes

\* what the response of a partition's own request holds for a product of
\* the partition: its attributes, or nothing
OwnResult(entry, product_id) ==
    IF product_id \in DOMAIN entry.parsed.results
    THEN entry.parsed.results[product_id]
    ELSE << >>

CleanupCall == classified_db' # classified_db /\ UNCHANGED dispatcherVars

\* C29: the cleanup-stuck operation sets to 'pending' exactly the
\* documents that are in 'processing' and were claimed more than thirty
\* minutes before; it changes nothing else of them, and leaves every
\* other document as it is
C29_Step ==
    CleanupCall =>
        \A r \in Records :
            IF /\ classified_db[r].standardization_status = "processing"
               /\ r \in stuck
            THEN classified_db'[r] =
                     [classified_db[r] EXCEPT
                         !.standardization_status = "pending"]
            ELSE classified_db'[r] = classified_db[r]

C29_ResetsExactlyStuck == [][C29_Step]_vars

\* the cleanup has reset a document while another document, claimed less
\* than thirty minutes before, is in 'processing' and a third, claimed
\* more than thirty minutes before, is 'standardized' or 'failed'
C29_Witness ==
    \E r1, r2, r3 \in Records :
        /\ r1 \in stuck
        /\ classified_db[r1].standardization_status = "pending"
        /\ r2 \notin stuck
        /\ classified_db[r2].standardization_status = "processing"
        /\ r3 \in stuck
        /\ classified_db[r3].standardization_status
               \in {"standardized", "failed"}

(***************************************************************************)
(* Termination of a dispatch cycle                                         *)
(***************************************************************************)
\* the dispatcher is inside process_batch
InProcessBatch(d) ==
    pc[d] \in {"claim", "prepare", "group", "refresh", "send", "insert",
               "status", "handler"}

\* process_batch has returned its dict or has raised
BatchEnded(d) == pc[d] \in {"done", "raised"}

\* what process_batch has still to do, at most: the rest of the claim
\* pass, the fetches, for every partition left its warm-up and its
\* request, then the insert, the status updates and the handler
StepsLeft(d) ==
    CASE pc[d] = "claim"   -> 4 * BatchSize + 6 + BatchSize - Len(products[d])
      [] pc[d] = "prepare" -> 4 * BatchSize + 5
      [] pc[d] = "group"   -> 4 * Len(groups_left[d]) + 4
      [] pc[d] = "refresh" -> 4 * Len(groups_left[d]) + 3
      [] pc[d] = "send"    -> 4 * Len(groups_left[d]) + 2
      [] pc[d] = "insert"  -> 3
      [] pc[d] = "status"  -> 2
      [] pc[d] = "handler" -> 1
      [] OTHER             -> 0

\* a step taken while the dispatcher is inside process_batch is a step of
\* process_batch that brings it nearer to its end: the runner does
\* nothing, no other call of process_batch is started, and the claim pass
\* takes no more than batch_size documents
C30_Step ==
    \A d \in Dispatchers :
        InProcessBatch(d) /\ dispatcherVars' # dispatcherVars =>
            /\ InProcessBatch(d)' \/ BatchEnded(d)'
            /\ StepsLeft(d)' < StepsLeft(d)
            /\ runner'[d] = runner[d]
            /\ cycles'[d] = cycles[d]
            /\ Len(products'[d]) <= BatchSize

\* C30: every dispatch cycle terminates: a call of process_batch returns
\* its dict or raises after at most one claim pass, one fetch pass and one
\* pass over the partitions, and the runner never leaves it half-way
C30_CycleTerminates ==
    /\ [][C30_Step]_vars
    /\ \A d \in {"d1"} : InProcessBatch(d) ~> BatchEnded(d)

\* a cycle that went through a claim pass of batch_size documents and a
\* request to the oracle has returned its dict, and another that raised
\* has been through its handler
C30_Witness ==
    /\ pc["d1"] = "done"
    /\ Len(products["d1"]) = BatchSize
    /\ oracle_log["d1"] # << >>
    /\ \E i \in 1..Len(RunnerLog("d1")) :
           RunnerLog("d1")[i] = [event |-> "sleep", value |-> 60]

(***************************************************************************)
(* The dict process_batch returns                                          *)
(***************************************************************************)
\* C31, as stated: in every dict process_batch returns, total is the sum
\* of standardized and failed, also when claimed products were dropped
\* because their source document was missing
C31_TotalIsSum ==
    \A d \in Dispatchers :
        pc[d] = "done" =>
            result[d].total = result[d].standardized + result[d].failed

(***************************************************************************)
(* The outcome map and the ids an oracle response names                    *)
(***************************************************************************)
\* the return of a partition's request adds entries to the outcome map
\* for the partition's own products only, and leaves the entry of every
\* other id as it was
C32_Step ==
    \A d \in Dispatchers :
        pc[d] = "send" /\ pc'[d] = "group" =>
            LET own == ProductIds(Head(groups_left[d]).products)
            IN  /\ DOMAIN all_results'[d] \subseteq
                       DOMAIN all_results[d] \cup own
                /\ \A r \in DOMAIN all_results[d] \ own :
                       all_results'[d][r] = all_results[d][r]

\* C32, as stated: the outcome of a product comes only from the response
\* to its own partition's request; an id of another partition, or of no
\* product of the cycle, in the response for a partition neither adds an
\* entry to the outcome map nor replaces another partition's result
C32_OwnPartitionOnly == [][C32_Step]_vars

(***************************************************************************)
(* The two stores after a cycle                                            *)
(***************************************************************************)
\* the status update with which process_batch returns: every document it
\* writes 'standardized' has a stored document with its source_id and its
\* source_collection
C33_Step ==
    \A d \in Dispatchers :
        pc[d] = "status" /\ pc'[d] = "done" =>
            \A i \in 1 .. Len(status_updates[d]) :
                status_updates[d][i].standardization_status = "standardized"
                => << classified_db[status_updates[d][i].id].source_id,
                      classified_db[status_updates[d][i].id].source_collection >>
                       \in StoredKeys(standardized_db')

\* C33, as stated: after a cycle has returned, every upstream document it
\* marked 'standardized' has a document with the same source id and
\* collection in the downstream store, also when the bulk upsert reported
\* a partial write error
C33_MarkedIsStored == [][C33_Step]_vars

(***************************************************************************)
(* The transitions of standardization_status                               *)
(***************************************************************************)
\* the transitions of the status of a document: claim, end of the cycle,
\* reset-failed, cleanup-stuck
StatusTransitions ==
    ({"absent", "pending"} \X {"processing"})
        \cup ({"processing"} \X {"standardized", "failed", "pending"})
        \cup {<< "failed", "pending" >>}

C34_Step ==
    \A r \in Records :
        classified_db'[r].standardization_status
                # classified_db[r].standardization_status =>
            << classified_db[r].standardization_status,
               classified_db'[r].standardization_status >>
                \in StatusTransitions

\* C34, as stated: the status of a document only follows the transitions
\* absent/pending -> processing, processing -> standardized or failed,
\* failed -> pending, processing -> pending; a document that is
\* 'standardized' is never written again by a dispatcher
C34_OnlyTheseTransitions == [][C34_Step]_vars

(***************************************************************************)
(* The runner's count and the claim                                        *)
(***************************************************************************)
\* C35, as stated: a document is counted as pending by the runner exactly
\* when the claim can take it: a cycle the runner starts after a non-zero
\* count, with no other worker, claims at least one document, and every
\* document that the claim can take is counted
C35_CountedIffClaimable ==
    \A d \in Dispatchers :
        /\ pc[d] = "done" => result[d].total > 0
        /\ pc[d] = "empty" =>
               \A r \in Records : ~ ClaimFilter(classified_db[r])

(***************************************************************************)
(* Progress of the continuous runner                                       *)
(***************************************************************************)
\* no call of a store has raised
NoFailure == \A d \in Dispatchers : exc[d] = None

\* the claimed document that a finished cycle has left in 'processing':
\* its source document was not found
LeftByCycle(r) ==
    /\ classified_db[r].standardization_status = "processing"
    /\ \A d \in Dispatchers : pc[d] \in {"idle", "empty", "done"}

\* C36, as stated: with a fair runner and stores and an oracle that answer,
\* every document the runner counts as pending leaves the pending state,
\* and reaches 'standardized' or 'failed' unless its source document is
\* missing
C36_PendingIsProcessed ==
    []NoFailure =>
        \A r \in Records :
            /\ CountFilter(classified_db[r]) ~>
                   ~ CountFilter(classified_db[r])
            /\ CountFilter(classified_db[r]) ~>
                   \/ classified_db[r].standardization_status
                          \in {"standardized", "failed"}
                   \/ LeftByCycle(r)

(***************************************************************************)
(* What changes a group's last_cache_refresh                               *)
(***************************************************************************)
\* the groups whose timestamp differs after the step
RefreshChanged(d) ==
    { g \in DOMAIN last_cache_refresh'[d] :
          g \notin DOMAIN last_cache_refresh[d]
              \/ last_cache_refresh'[d][g] # last_cache_refresh[d][g] }

C37_Step ==
    \A d \in Dispatchers :
        \* no timestamp is removed, and the one that changes is that of
        \* the group whose warm-up request has returned
        /\ DOMAIN last_cache_refresh[d] \subseteq DOMAIN last_cache_refresh'[d]
        /\ RefreshChanged(d) # {} =>
               /\ pc[d] = "refresh"
               /\ RefreshChanged(d) = {HeadGroup(d)}
               /\ WarmUpAppended(d)
               /\ oracle_log'[d][Len(oracle_log'[d])].outcome = "returned"
               /\ last_cache_refresh'[d][HeadGroup(d)] = current_time[d]
        \* the cached text of a group never changes, and a step of the
        \* refresh creates none
        /\ \A g \in DOMAIN group_caches[d] :
               /\ g \in DOMAIN group_caches'[d]
               /\ group_caches'[d][g] = group_caches[d][g]
        /\ pc[d] = "refresh" => group_caches'[d] = group_caches[d]
        \* a real request that is sent without a warm-up is for a group
        \* whose warm-up has returned before
        /\ pc[d] = "group" /\ pc'[d] = "send" =>
               HeadGroup(d) \in DOMAIN last_cache_refresh[d]

\* C37: the timestamp of a group changes only when a warm-up request for
\* that group returns; creating the cache entry, the real request and a
\* failed warm-up leave it unchanged, a refresh changes neither the
\* timestamp nor the cached text of another group, and the first use of a
\* group sends a warm-up request before the real one
C37_OnlyWarmUpRefreshes == [][C37_Step]_vars

\* a group has a timestamp, and the first warm-up of another group has
\* failed: that group has no timestamp and its real request is sent next
C37_Witness ==
    \E d \in Dispatchers :
        /\ last_cache_refresh[d] # << >>
        /\ pc[d] = "send"
        /\ HeadGroup(d) \notin DOMAIN last_cache_refresh[d]
        /\ oracle_log[d] # << >>
        /\ oracle_log[d][Len(oracle_log[d])].kind = "warmup"
        /\ oracle_log[d][Len(oracle_log[d])].outcome = "failed"

(***************************************************************************)
(* The unstandardized attributes of a stored product                       *)
(***************************************************************************)
\* s is t with some elements left out, in the order of t
RECURSIVE IsSubsequence(_, _)
IsSubsequence(s, t) ==
    IF s = << >> THEN TRUE
    ELSE IF t = << >> THEN FALSE
    ELSE IF Head(s) = Head(t) /\ IsSubsequence(Tail(s), Tail(t)) THEN TRUE
    ELSE IsSubsequence(s, Tail(t))

\* C38: the unstandardized attributes of a product are a sub-sequence of
\* its original attributes in their order, never more than them, and all
\* of them when the product's result list is empty
C38_UnstandardizedIsSubsequence ==
    \A d \in Dispatchers :
        \A i \in 1 .. Len(standardized_products[d]) :
            LET product == standardized_products[d][i]
            IN  /\ IsSubsequence(product.unstandardized_attributes,
                                 product.original_attributes)
                /\ Len(product.unstandardized_attributes)
                       <= Len(product.original_attributes)
                /\ product.standardized_attributes = << >> =>
                       product.unstandardized_attributes
                           = product.original_attributes

\* a product with two original attributes of which the second alone is
\* unstandardized
C38_Witness ==
    \E i \in 1 .. Len(standardized_products["d1"]) :
        LET product == standardized_products["d1"][i]
        IN  /\ Len(product.original_attributes) = 2
            /\ product.unstandardized_attributes
                   = << product.original_attributes[2] >>
            /\ product.original_attributes[1]
                   # product.original_attributes[2]

(***************************************************************************)
(* The key of the grouped polling mode and the resolver's group            *)
(***************************************************************************)
\* C39, as stated: for every code, the key that the grouped polling mode
\* derives equals the group _get_okpd_group derives, so every product
\* whose resolved group has catalog rules is selected in grouped mode
C39_SameGroupKey ==
    \A d \in Dispatchers :
        \A i \in 1 .. Len(groups_left[d]) :
            groups_left[d][i].group \in DOMAIN okpd2_standards[d] =>
                \A k \in 1 .. Len(groups_left[d][i].products) :
                    LET code == groups_left[d][i].products[k].okpd2_code
                    IN  /\ Len(code) >= 4
                        /\ GroupedKey(code) = groups_left[d][i].group

====
